---- MODULE Spec2Model ----
(***************************************************************************)
(* Model of the LQR notebook (src/python/LQR.ipynb): the trim scan, the    *)
(* control setpoint, the cost matrices, the linearization, the Riccati     *)
(* gain and the two closed-loop simulations, run cell after cell on one    *)
(* MjData object.                                                          *)
(***************************************************************************)
EXTENDS Integers, Sequences, FiniteSets, TLC

\* a sequence given entry by entry, as the tuple of its entries
Tup(s) == s \o <<>>

(***************************************************************************)
(* Arbitrary-size naturals: little-endian limb sequences in base Base,     *)
(* without leading zero limbs (zero is <<>>).  TLC's integers have 32      *)
(* bits; a double's 53-bit mantissa does not fit in one.                   *)
(***************************************************************************)
Base == 2^15

RECURSIVE BigNorm(_)
BigNorm(a) ==
  IF a = <<>> THEN <<>>
  ELSE IF a[Len(a)] = 0 THEN BigNorm(SubSeq(a, 1, Len(a) - 1)) ELSE a

RECURSIVE BigFromInt(_)
BigFromInt(n) == IF n = 0 THEN <<>> ELSE <<n % Base>> \o BigFromInt(n \div Base)

RECURSIVE BigToInt(_)
BigToInt(a) == IF a = <<>> THEN 0 ELSE a[1] + Base * BigToInt(Tail(a))

Limb(a, i) == IF i <= Len(a) THEN a[i] ELSE 0

RECURSIVE BigAddC(_, _, _, _)
BigAddC(a, b, i, c) ==
  IF i > Len(a) /\ i > Len(b)
  THEN (IF c = 0 THEN <<>> ELSE <<c>>)
  ELSE LET s == Limb(a, i) + Limb(b, i) + c
       IN  <<s % Base>> \o BigAddC(a, b, i + 1, s \div Base)

BigAdd(a, b) == BigNorm(BigAddC(a, b, 1, 0))

\* a - b, for a >= b
RECURSIVE BigSubC(_, _, _, _)
BigSubC(a, b, i, c) ==
  IF i > Len(a) THEN <<>>
  ELSE LET s == Limb(a, i) - Limb(b, i) - c
       IN  IF s < 0 THEN <<s + Base>> \o BigSubC(a, b, i + 1, 1)
           ELSE <<s>> \o BigSubC(a, b, i + 1, 0)

BigSub(a, b) == BigNorm(BigSubC(a, b, 1, 0))

RECURSIVE BigLessFrom(_, _, _)
BigLessFrom(a, b, i) ==
  IF i = 0 THEN FALSE
  ELSE IF a[i] # b[i] THEN a[i] < b[i] ELSE BigLessFrom(a, b, i - 1)

BigLess(a, b) ==
  IF Len(a) # Len(b) THEN Len(a) < Len(b) ELSE BigLessFrom(a, b, Len(a))

\* a * k for a small k (k * Base fits an integer)
RECURSIVE BigMulC(_, _, _, _)
BigMulC(a, k, i, c) ==
  IF i > Len(a) THEN BigFromInt(c)
  ELSE LET s == a[i] * k + c
       IN  <<s % Base>> \o BigMulC(a, k, i + 1, s \div Base)

BigMulSmall(a, k) == BigNorm(BigMulC(a, k, 1, 0))

\* <<the limbs of a div k, a mod k>> for a small k, from limb i down, r
\* being the remainder of the limbs above; the remainder is an integer
RECURSIVE BigDivC(_, _, _, _)
BigDivC(a, k, i, r) ==
  IF i = 0 THEN <<<<>>, r>>
  ELSE LET cur  == r * Base + a[i]
           rest == BigDivC(a, k, i - 1, cur % k)
       IN  <<rest[1] \o <<cur \div k>>, rest[2]>>

RECURSIVE BigShl(_, _)
BigShl(a, n) ==
  IF n = 0 \/ a = <<>> THEN a
  ELSE IF n >= 15 THEN BigShl(<<0>> \o a, n - 15)
  ELSE BigMulSmall(a, 2^n)

RECURSIVE BigShr(_, _)
BigShr(a, n) ==
  IF n = 0 \/ a = <<>> THEN a
  ELSE IF n >= 15 THEN BigShr(Tail(a), n - 15)
  ELSE BigNorm(BigDivC(a, 2^n, Len(a), 0)[1])

RECURSIVE IntBitLen(_)
IntBitLen(n) == IF n = 0 THEN 0 ELSE 1 + IntBitLen(n \div 2)

BigBitLen(a) == IF a = <<>> THEN 0 ELSE 15 * (Len(a) - 1) + IntBitLen(a[Len(a)])

BigBit(a, n) == (Limb(a, (n \div 15) + 1) \div 2^(n % 15)) % 2

\* the largest digit d with b * d <= cur, from an estimate that is not
\* below it
RECURSIVE BigDigit(_, _, _)
BigDigit(cur, b, d) ==
  IF ~BigLess(cur, BigMulSmall(b, d)) THEN d ELSE BigDigit(cur, b, d - 1)

\* long division of the limbs a, most significant first, by b, whose top
\* limb is Base / 2 or more: r is the remainder and q the quotient of the
\* limbs taken so far.  The quotient of the top two limbs of the running
\* remainder by the top limb of b exceeds the digit by at most 2.
RECURSIVE BigDivLimbs(_, _, _, _)
BigDivLimbs(a, b, r, q) ==
  IF a = <<>> \/ Len(r) + Len(q) < 0 THEN <<q, r>>
  ELSE LET cur == BigNorm(<<a[Len(a)]>> \o r)
           top == (Limb(cur, Len(b) + 1) * Base + Limb(cur, Len(b))) \div b[Len(b)]
           d   == BigDigit(cur, b, IF top < Base THEN top ELSE Base - 1)
       IN  BigDivLimbs(SubSeq(a, 1, Len(a) - 1), b,
                       BigSub(cur, BigMulSmall(b, d)), <<d>> \o q)

\* <<a div b, a mod b>> for b # 0: both are scaled by the power of two that
\* brings the top limb of b to Base / 2 or more, which leaves the quotient
\* as it is and scales the remainder
BigDivMod(a, b) ==
  LET n  == 15 - IntBitLen(b[Len(b)])
      qr == BigDivLimbs(BigShl(a, n), BigShl(b, n), <<>>, <<>>)
  IN  <<BigNorm(qr[1]), BigShr(qr[2], n)>>

\* a * b
RECURSIVE BigMulFrom(_, _, _)
BigMulFrom(a, b, i) ==
  IF i > Len(b) THEN <<>>
  ELSE BigAdd(BigMulSmall(a, b[i]), <<0>> \o BigMulFrom(a, b, i + 1))
BigMul(a, b) == IF a = <<>> \/ b = <<>> THEN <<>> ELSE BigNorm(BigMulFrom(a, b, 1))

\* the number of zero bits below the lowest set bit of a # 0
RECURSIVE IntTrailingZeros(_)
IntTrailingZeros(n) == IF n % 2 = 1 THEN 0 ELSE 1 + IntTrailingZeros(n \div 2)
RECURSIVE BigTrailingZeros(_)
BigTrailingZeros(a) ==
  IF a[1] = 0 THEN 15 + BigTrailingZeros(Tail(a)) ELSE IntTrailingZeros(a[1])

\* the largest r with r * r <= a, by Newton's iteration from above
RECURSIVE BigSqrtFrom(_, _)
BigSqrtFrom(a, x) ==
  LET y == BigShr(BigAdd(x, BigDivMod(a, x)[1]), 1)
  IN  IF BigLess(y, x) THEN BigSqrtFrom(a, y) ELSE x
BigSqrt(a) ==
  IF a = <<>> THEN <<>> ELSE BigSqrtFrom(a, BigShl(<<1>>, (BigBitLen(a) + 1) \div 2))

(***************************************************************************)
(* IEEE-754 binary64 values (Python floats, numpy float64, C doubles):     *)
(* <<s, m, e>> is s * m * 2^e with s = 1 or -1 and m a natural number of   *)
(* at most MantBits bits that is odd (zero is <<s, <<>>, 0>>, with its     *)
(* sign).  Every operation rounds its exact result to nearest, ties to     *)
(* even.  The exponent is not limited: the values of the notebook stay far *)
(* from overflow and underflow, and none is an infinity or a NaN.          *)
(***************************************************************************)
MantBits == 53

\* s * r * 2^e for r > 0, with the mantissa made odd
FNormal(s, r, e) == <<s, BigShr(r, BigTrailingZeros(r)), e + BigTrailingZeros(r)>>

\* s * x * 2^e, plus something positive below one unit of x when sticky,
\* without the d lowest bits of x: the result goes up when the highest of
\* them is set and either a lower bit is, or the sticky part, or the lowest
\* bit kept (the tie goes to even)
FRoundAt(s, x, e, sticky, d) ==
  FNormal(s,
          IF /\ d > 0
             /\ BigBit(x, d - 1) = 1
             /\ (sticky \/ BigTrailingZeros(x) < d - 1 \/ BigBit(x, d) = 1)
          THEN BigAdd(BigShr(x, d), <<1>>)
          ELSE BigShr(x, d),
          e + d)

\* s * x * 2^e, plus something positive below one unit of x when sticky,
\* rounded to MantBits significant bits
FRound(s, x, e, sticky) ==
  IF x = <<>> THEN <<s, <<>>, 0>>
  ELSE FRoundAt(s, x, e, sticky,
                IF BigBitLen(x) > MantBits THEN BigBitLen(x) - MantBits ELSE 0)

FIsZero(a) == a[2] = <<>>
\* float(n) for an integer n (of at most 31 bits: no rounding)
FFromInt(n) ==
  IF n = 0 THEN <<1, <<>>, 0>>
  ELSE LET k == IF n < 0 THEN -n ELSE n
           z == IntTrailingZeros(k)
       IN  <<(IF n < 0 THEN -1 ELSE 1), BigFromInt(k \div 2^z), z>>

\* a < b; for two values of one sign the magnitudes are compared, of
\* which the mantissa of the larger exponent is shifted onto the other
FLess(a, b) ==
  IF FIsZero(a) /\ FIsZero(b) THEN FALSE
  ELSE IF FIsZero(a) THEN b[1] = 1
  ELSE IF FIsZero(b) \/ a[1] # b[1] THEN a[1] = -1
  ELSE LET p == IF a[1] = 1 THEN a ELSE b
           q == IF a[1] = 1 THEN b ELSE a
           swap == p[3] < q[3]
           x == BigShl(IF swap THEN q[2] ELSE p[2], IF swap THEN q[3] - p[3] ELSE p[3] - q[3])
       IN  BigLess(IF swap THEN p[2] ELSE x, IF swap THEN x ELSE q[2])

\* a + b: p is the operand of the larger exponent, shifted onto the other
FAdd(a, b) ==
  IF FIsZero(a) /\ FIsZero(b) THEN <<(IF a[1] = -1 /\ b[1] = -1 THEN -1 ELSE 1), <<>>, 0>>
  ELSE IF FIsZero(a) THEN b
  ELSE IF FIsZero(b) THEN a
  ELSE LET swap == a[3] < b[3]
           p == IF swap THEN b ELSE a
           q == IF swap THEN a ELSE b
           x == BigShl(p[2], p[3] - q[3])
           less == BigLess(x, q[2])
           mag == IF p[1] = q[1] THEN BigAdd(x, q[2])
                  ELSE BigSub(IF less THEN q[2] ELSE x, IF less THEN x ELSE q[2])
       IN  IF mag = <<>> THEN <<1, <<>>, 0>>
           ELSE FRound(IF p[1] = q[1] \/ ~less THEN p[1] ELSE q[1], mag, q[3], FALSE)

\* a - b
FSub(a, b) == FAdd(a, <<-b[1], b[2], b[3]>>)

\* a * b
FMul(a, b) ==
  IF FIsZero(a) \/ FIsZero(b) THEN <<a[1] * b[1], <<>>, 0>>
  ELSE FRound(a[1] * b[1], BigMul(a[2], b[2]), a[3] + b[3], FALSE)

\* a / b for b # 0: the quotient of the mantissas to MantBits + 2 bits or
\* more, the remainder being the sticky part
FDiv(a, b) ==
  IF FIsZero(a) THEN <<a[1] * b[1], <<>>, 0>>
  ELSE LET d  == MantBits + 2 + BigBitLen(b[2]) - BigBitLen(a[2])
           k  == IF d < 0 THEN 0 ELSE d
           qr == BigDivMod(BigShl(a[2], k), b[2])
       IN  FRound(a[1] * b[1], qr[1], a[3] - b[3] - k, qr[2] # <<>>)

\* math.sqrt(a) for a > 0: the integer square root of the mantissa scaled
\* to 2 * (MantBits + 2) bits or more, an inexact root being the sticky part
FSqrt(a) ==
  IF FIsZero(a) THEN a
  ELSE LET d == 2 * (MantBits + 2) - BigBitLen(a[2])
           k == IF d < 0 THEN (a[3] % 2) ELSE d + ((a[3] - d) % 2)
           x == BigShl(a[2], k)
           r == BigSqrt(x)
       IN  FRound(1, r, (a[3] - k) \div 2, BigMul(r, r) # x)

\* int(a): truncation towards zero
FTrunc(a) ==
  IF FIsZero(a) THEN 0
  ELSE a[1] * BigToInt(IF a[3] >= 0 THEN BigShl(a[2], a[3]) ELSE BigShr(a[2], -a[3]))
\* int(np.ceil(a))
FCeil(a) == FTrunc(a) + (IF a[1] = 1 /\ a[3] < 0 /\ ~FIsZero(a) THEN 1 ELSE 0)
\* the float literal with the decimal value n / d (d a power of ten): the
\* double nearest to it
Dec(n, d) == FDiv(FFromInt(n), FFromInt(d))
\* the double next to a non-zero double a, towards zero
FBelow(a) ==
  IF a[2] = <<1>> THEN FNormal(a[1], BigSub(BigShl(<<1>>, MantBits), <<1>>), a[3] - MantBits)
  ELSE FNormal(a[1], BigSub(BigShl(a[2], MantBits - BigBitLen(a[2])), <<1>>),
               a[3] - (MantBits - BigBitLen(a[2])))

\* a * b + c.  A build that has the fused multiply-add instruction rounds
\* once, the exact product being added to c; any other rounds the product
\* and then the sum.  (With a zero among a, b and c the two are the same.)
Fma(a, b, c, fused) ==
  FAdd(IF fused /\ ~FIsZero(a) /\ ~FIsZero(b) /\ ~FIsZero(c)
       THEN <<a[1] * b[1], BigMul(a[2], b[2]), a[3] + b[3]>>
       ELSE FMul(a, b),
       c)

\* The constants of the C library's exp (glibc 2.28 and later, __exp_data
\* with N = 128): N / ln 2, the rounding shift 1.5 * 2^52, -ln 2 / N in two
\* parts, the coefficients C2 .. C5 of the polynomial for e^r - 1 - r, and
\* for each j in 0 .. N - 1 the pair <<tail, H>> with 2^(j/N) close to
\* H * (1 + tail)
ExpData ==
  [invln2N   |-> <<1, <<16767, 25899, 10894, 92>>, -44>>,
   shift     |-> <<1, <<3>>, 51>>,
   negln2hiN |-> <<-1, <<32637, 11842, 44>>, -43>>,
   negln2loN |-> <<-1, <<7581, 15518, 28469, 115>>, -98>>,
   poly      |-> << <<1, <<32189, 32767, 32767, 255>>, -54>>,
                   <<1, <<21775, 10922, 21845, 42>>, -53>>,
                   <<1, <<11153, 7726, 21847, 170>>, -57>>,
                   <<1, <<20503, 20297, 17477, 136>>, -59>> >>,
   tab       |-> <<
     << <<1, <<>>, 0>>, <<1, <<1>>, 0>> >>,
     << <<1, <<24503, 6792, 30366, 108>>, -105>>, <<1, <<13109, 21494, 22774, 128>>, -52>> >>,
     << <<-1, <<23645, 14769, 78, 139>>, -108>>, <<1, <<97, 31983, 12904, 129>>, -52>> >>,
     << <<-1, <<26321, 8462, 31208, 130>>, -106>>, <<1, <<32645, 20700, 3159, 130>>, -52>> >>,
     << <<1, <<30227, 27343, 18760, 230>>, -107>>, <<1, <<24925, 27018, 22960, 32>>, -50>> >>,
     << <<-1, <<18301, 9209, 7424, 111>>, -106>>, <<1, <<31599, 10717, 24790, 65>>, -51>> >>,
     << <<1, <<18529, 17357, 23865, 135>>, -109>>, <<1, <<13177, 17949, 17314, 16>>, -49>> >>,
     << <<1, <<21401, 13927, 3985, 133>>, -106>>, <<1, <<29571, 5517, 30971, 132>>, -52>> >>,
     << <<1, <<31597, 15110, 27289, 188>>, -106>>, <<1, <<2319, 23027, 21857, 133>>, -52>> >>,
     << <<1, <<31743, 18814, 13594, 61>>, -105>>, <<1, <<18423, 22244, 12872, 134>>, -52>> >>,
     << <<1, <<7377, 24671, 30965, 245>>, -112>>, <<1, <<26833, 13011, 18392, 67>>, -51>> >>,
     << <<-1, <<28171, 4896, 3282, 208>>, -109>>, <<1, <<21275, 24573, 28058, 135>>, -52>> >>,
     << <<-1, <<24199, 10799, 11428, 85>>, -105>>, <<1, <<23377, 8228, 19463, 136>>, -52>> >>,
     << <<-1, <<27221, 6301, 958, 132>>, -110>>, <<1, <<3187, 24630, 10941, 34>>, -50>> >>,
     << <<-1, <<31243, 14805, 4679, 71>>, -105>>, <<1, <<18799, 10986, 10323, 4>>, -47>> >>,
     << <<1, <<21935, 21176, 20367, 134>>, -107>>, <<1, <<3665, 4427, 27235, 138>>, -52>> >>,
     << <<-1, <<12905, 31401, 3466, 16>>, -104>>, <<1, <<20859, 30970, 19168, 139>>, -52>> >>,
     << <<-1, <<12861, 11196, 32705, 248>>, -107>>, <<1, <<18165, 14476, 5618, 70>>, -51>> >>,
     << <<1, <<21439, 32294, 9776, 220>>, -107>>, <<1, <<19317, 22239, 3439, 141>>, -52>> >>,
     << <<-1, <<30099, 30225, 13112, 91>>, -105>>, <<1, <<5941, 16898, 15328, 35>>, -50>> >>,
     << <<1, <<20859, 29667, 23966, 6>>, -101>>, <<1, <<23765, 12648, 10510, 71>>, -51>> >>,
     << <<-1, <<14493, 5900, 7691, 255>>, -107>>, <<1, <<22813, 17913, 13632, 143>>, -52>> >>,
     << <<1, <<17293, 2381, 15621, 211>>, -107>>, <<1, <<18027, 2146, 3191, 72>>, -51>> >>,
     << <<1, <<1149, 25032, 26646, 131>>, -107>>, <<1, <<28235, 4477, 16019, 72>>, -51>> >>,
     << <<1, <<10789, 29140, 3837, 45>>, -104>>, <<1, <<11335, 7069, 7229, 18>>, -49>> >>,
     << <<1, <<18557, 25832, 30819, 186>>, -107>>, <<1, <<9791, 8037, 18233, 146>>, -52>> >>,
     << <<1, <<29689, 6175, 3671, 65>>, -106>>, <<1, <<31965, 19396, 11541, 147>>, -52>> >>,
     << <<-1, <<1071, 16241, 28918, 90>>, -105>>, <<1, <<25473, 17386, 4991, 148>>, -52>> >>,
     << <<1, <<11057, 23059, 24453, 151>>, -107>>, <<1, <<24289, 27199, 31351, 148>>, -52>> >>,
     << <<-1, <<24573, 6767, 17206, 116>>, -111>>, <<1, <<11673, 31259, 11807, 9>>, -48>> >>,
     << <<1, <<685, 14598, 14210, 54>>, -105>>, <<1, <<779, 19912, 18966, 150>>, -52>> >>,
     << <<1, <<19343, 5021, 21066, 240>>, -109>>, <<1, <<6059, 10558, 22879, 75>>, -51>> >>,
     << <<1, <<21979, 19888, 6890, 77>>, -106>>, <<1, <<14101, 5219, 7160, 152>>, -52>> >>,
     << <<1, <<7443, 29014, 16897, 44>>, -105>>, <<1, <<22577, 30873, 1475, 153>>, -52>> >>,
     << <<1, <<31781, 24019, 14962, 127>>, -106>>, <<1, <<5887, 25800, 28706, 153>>, -52>> >>,
     << <<-1, <<5825, 7623, 9088, 45>>, -105>>, <<1, <<8177, 16165, 23317, 154>>, -52>> >>,
     << <<-1, <<27149, 29458, 9590, 18>>, -103>>, <<1, <<10699, 28277, 18076, 155>>, -52>> >>,
     << <<-1, <<5831, 6993, 4080, 100>>, -105>>, <<1, <<27699, 27909, 6492, 78>>, -51>> >>,
     << <<-1, <<7017, 16020, 9168, 71>>, -107>>, <<1, <<8183, 27083, 8044, 157>>, -52>> >>,
     << <<-1, <<6933, 26524, 25702, 200>>, -106>>, <<1, <<10469, 1575, 3255, 158>>, -52>> >>,
     << <<1, <<19565, 20052, 32034, 172>>, -107>>, <<1, <<6673, 19474, 15692, 79>>, -51>> >>,
     << <<-1, <<13509, 31272, 9408, 76>>, -105>>, <<1, <<8199, 598, 31301, 39>>, -50>> >>,
     << <<-1, <<2395, 4143, 7741, 197>>, -110>>, <<1, <<5909, 8695, 11284, 80>>, -51>> >>,
     << <<-1, <<6683, 20115, 12909, 225>>, -108>>, <<1, <<10391, 12961, 18391, 161>>, -52>> >>,
     << <<1, <<11281, 16773, 4021, 155>>, -111>>, <<1, <<2349, 16579, 14369, 162>>, -52>> >>,
     << <<1, <<25839, 30220, 6180, 179>>, -106>>, <<1, <<87, 23098, 10503, 163>>, -52>> >>,
     << <<1, <<889, 13634, 13191, 246>>, -109>>, <<1, <<5069, 22200, 8616, 10>>, -48>> >>,
     << <<1, <<28963, 18401, 32739, 9>>, -102>>, <<1, <<27119, 28887, 18005, 82>>, -51>> >>,
     << <<1, <<11003, 22383, 9267, 11>>, -104>>, <<1, <<10791, 10860, 32619, 165>>, -52>> >>,
     << <<1, <<24695, 22185, 30455, 152>>, -106>>, <<1, <<23821, 13307, 29386, 166>>, -52>> >>,
     << <<-1, <<20935, 113, 10344, 126>>, -106>>, <<1, <<11431, 27962, 26313, 167>>, -52>> >>,
     << <<-1, <<9033, 14631, 31539, 190>>, -107>>, <<1, <<13089, 8911, 11701, 84>>, -51>> >>,
     << <<-1, <<14431, 31262, 31514, 198>>, -108>>, <<1, <<10177, 22173, 26710, 84>>, -51>> >>,
     << <<-1, <<11899, 27771, 9357, 88>>, -106>>, <<1, <<4623, 5307, 18067, 170>>, -52>> >>,
     << <<1, <<27591, 6397, 27146, 76>>, -105>>, <<1, <<5101, 14005, 24206, 85>>, -51>> >>,
     << <<1, <<6917, 24341, 25308, 220>>, -108>>, <<1, <<18429, 10543, 13387, 172>>, -52>> >>,
     << <<1, <<21513, 17464, 3975, 131>>, -106>>, <<1, <<21545, 14992, 11295, 173>>, -52>> >>,
     << <<1, <<25461, 20505, 3850, 83>>, -111>>, <<1, <<18103, 5298, 9370, 174>>, -52>> >>,
     << <<1, <<16437, 22217, 19352, 161>>, -106>>, <<1, <<9257, 17771, 29623, 21>>, -49>> >>,
     << <<-1, <<30367, 17202, 4393, 231>>, -107>>, <<1, <<23561, 29421, 6022, 176>>, -52>> >>,
     << <<-1, <<27061, 20219, 6626, 28>>, -104>>, <<1, <<21893, 24692, 4602, 177>>, -52>> >>,
     << <<-1, <<29911, 2347, 9969, 81>>, -106>>, <<1, <<26137, 25420, 18536, 5>>, -47>> >>,
     << <<-1, <<19211, 24085, 26478, 19>>, -103>>, <<1, <<8741, 1194, 2274, 179>>, -52>> >>,
     << <<1, <<1625, 16447, 4266, 46>>, -108>>, <<1, <<10611, 10393, 1367, 180>>, -52>> >>,
     << <<-1, <<17477, 28631, 23031, 19>>, -103>>, <<1, <<15309, 19710, 633, 181>>, -52>> >>,
     << <<-1, <<23745, 1844, 9563, 104>>, -108>>, <<1, <<23231, 27159, 73, 182>>, -52>> >>,
     << <<-1, <<21751, 14445, 20447, 77>>, -108>>, <<1, <<6703, 30922, 32456, 182>>, -52>> >>,
     << <<-1, <<2129, 10689, 28917, 134>>, -107>>, <<1, <<25889, 31912, 32637, 45>>, -50>> >>,
     << <<-1, <<16079, 31924, 32145, 192>>, -108>>, <<1, <<6109, 29814, 8053, 46>>, -50>> >>,
     << <<-1, <<14299, 22545, 15250, 11>>, -103>>, <<1, <<24669, 9298, 16282, 46>>, -50>> >>,
     << <<-1, <<29509, 7765, 12900, 88>>, -106>>, <<1, <<26569, 11396, 32685, 186>>, -52>> >>,
     << <<1, <<21715, 15379, 29485, 132>>, -106>>, <<1, <<23871, 8124, 421, 188>>, -52>> >>,
     << <<-1, <<9501, 29339, 19314, 217>>, -108>>, <<1, <<391, 26582, 1105, 189>>, -52>> >>,
     << <<1, <<16491, 10447, 13301, 167>>, -106>>, <<1, <<24729, 304, 986, 95>>, -51>> >>,
     << <<1, <<27733, 22444, 12166, 175>>, -109>>, <<1, <<10033, 14031, 17894, 95>>, -51>> >>,
     << <<-1, <<26529, 12211, 17290, 98>>, -106>>, <<1, <<3337, 21566, 2126, 96>>, -51>> >>,
     << <<-1, <<19917, 30877, 27062, 38>>, -104>>, <<1, <<19987, 12953, 5670, 193>>, -52>> >>,
     << <<-1, <<32655, 14873, 15624, 65>>, -106>>, <<1, <<18349, 3143, 7273, 194>>, -52>> >>,
     << <<-1, <<11191, 22642, 10401, 83>>, -105>>, <<1, <<4845, 13961, 9062, 195>>, -52>> >>,
     << <<1, <<1861, 26459, 8538>>, -97>>, <<1, <<26265, 13076, 11039, 196>>, -52>> >>,
     << <<1, <<15021, 24824, 14127, 59>>, -105>>, <<1, <<8411, 1109, 13205, 197>>, -52>> >>,
     << <<-1, <<26623, 14731, 22914, 173>>, -109>>, <<1, <<20771, 2906, 20274, 49>>, -50>> >>,
     << <<1, <<22481, 11513, 30339, 55>>, -106>>, <<1, <<15259, 6421, 25437, 99>>, -51>> >>,
     << <<-1, <<15747, 20028, 9342, 152>>, -106>>, <<1, <<32739, 2961, 10422, 100>>, -51>> >>,
     << <<-1, <<7721, 5848, 9954, 237>>, -110>>, <<1, <<17893, 24987, 23774, 201>>, -52>> >>,
     << <<-1, <<14681, 31009, 4069, 225>>, -109>>, <<1, <<21007, 6032, 26899, 202>>, -52>> >>,
     << <<-1, <<31957, 8948, 1670, 73>>, -105>>, <<1, <<25829, 21499, 24416, 12>>, -48>> >>,
     << <<-1, <<3659, 11981, 10675, 174>>, -107>>, <<1, <<989, 28874, 16866, 102>>, -51>> >>,
     << <<1, <<20007, 22307, 16368, 141>>, -108>>, <<1, <<16137, 12372, 28964, 12>>, -48>> >>,
     << <<1, <<29627, 16916, 18647, 238>>, -109>>, <<1, <<8995, 13254, 8588, 207>>, -52>> >>,
     << <<-1, <<8803, 17604, 5136, 190>>, -107>>, <<1, <<25957, 30395, 12697, 208>>, -52>> >>,
     << <<1, <<12757, 18372, 29211, 216>>, -107>>, <<1, <<11571, 22676, 17007, 209>>, -52>> >>,
     << <<-1, <<15125, 10105, 28487, 141>>, -106>>, <<1, <<9565, 25724, 21518, 210>>, -52>> >>,
     << <<1, <<6377, 7406, 6243, 67>>, -105>>, <<1, <<5739, 1228, 15567, 26>>, -49>> >>,
     << <<1, <<23219, 23782, 9745, 163>>, -107>>, <<1, <<32191, 10995, 31149, 212>>, -52>> >>,
     << <<-1, <<10093, 19399, 24525, 37>>, -105>>, <<1, <<31165, 16339, 1751, 107>>, -51>> >>,
     << <<1, <<13191, 9622, 27102, 224>>, -107>>, <<1, <<21421, 12981, 8830, 215>>, -52>> >>,
     << <<-1, <<27901, 19153, 30494, 65>>, -105>>, <<1, <<23347, 10637, 7182, 108>>, -51>> >>,
     << <<-1, <<22365, 22236, 1970, 87>>, -109>>, <<1, <<5627, 28830, 20106, 217>>, -52>> >>,
     << <<-1, <<7129, 29165, 2624, 2>>, -100>>, <<1, <<11421, 3557, 13029, 109>>, -51>> >>,
     << <<-1, <<25805, 7254, 22260, 49>>, -107>>, <<1, <<24135, 26102, 32219, 219>>, -52>> >>,
     << <<-1, <<2613, 22193, 15241, 143>>, -106>>, <<1, <<805, 12449, 19296, 110>>, -51>> >>,
     << <<1, <<24013, 5311, 32604, 167>>, -108>>, <<1, <<24809, 4171, 6205, 111>>, -51>> >>,
     << <<-1, <<9771, 32073, 15867, 35>>, -104>>, <<1, <<7689, 14254, 19209, 223>>, -52>> >>,
     << <<1, <<3251, 24926, 15032, 155>>, -108>>, <<1, <<21671, 28354, 6555, 56>>, -50>> >>,
     << <<1, <<32613, 11855, 25394, 61>>, -105>>, <<1, <<26685, 24575, 342, 113>>, -51>> >>,
     << <<1, <<22123, 26756, 24719, 41>>, -105>>, <<1, <<20811, 23727, 8132, 227>>, -52>> >>,
     << <<1, <<6759, 28828, 14012, 158>>, -109>>, <<1, <<26549, 10253, 15798, 228>>, -52>> >>,
     << <<1, <<17197, 6948, 13718, 23>>, -106>>, <<1, <<4201, 14815, 23683, 229>>, -52>> >>,
     << <<-1, <<23273, 972, 5169, 66>>, -106>>, <<1, <<25085, 21853, 15894, 115>>, -51>> >>,
     << <<-1, <<31343, 32767, 13684, 253>>, -107>>, <<1, <<25183, 9475, 1837, 58>>, -50>> >>,
     << <<-1, <<10569, 28907, 14008, 128>>, -106>>, <<1, <<17657, 2061, 24334, 116>>, -51>> >>,
     << <<1, <<1959, 19578, 3606, 165>>, -108>>, <<1, <<9351, 14839, 24675, 234>>, -52>> >>,
     << <<-1, <<8719, 16512, 18040, 148>>, -107>>, <<1, <<12403, 17842, 16497, 29>>, -49>> >>,
     << <<1, <<25771, 27360, 23120, 60>>, -105>>, <<1, <<12933, 1974, 10136, 237>>, -52>> >>,
     << <<1, <<27467, 22530, 26982, 161>>, -107>>, <<1, <<3491, 7984, 14948, 7>>, -47>> >>,
     << <<-1, <<15903, 3944, 21636, 150>>, -107>>, <<1, <<7007, 26359, 29276, 239>>, -52>> >>,
     << <<-1, <<3529, 30350, 10980, 201>>, -107>>, <<1, <<8489, 10731, 6424, 241>>, -52>> >>,
     << <<1, <<2259, 16501, 22545, 165>>, -108>>, <<1, <<8187, 26507, 8285, 121>>, -51>> >>,
     << <<1, <<29297, 9018, 6065, 158>>, -107>>, <<1, <<19587, 30606, 26951, 243>>, -52>> >>,
     << <<-1, <<14623, 20986, 32196, 15>>, -103>>, <<1, <<18541, 8868, 18783, 122>>, -51>> >>,
     << <<-1, <<29821, 17478, 14947, 237>>, -107>>, <<1, <<26609, 23324, 15648, 246>>, -52>> >>,
     << <<1, <<17409, 4202, 25054, 30>>, -104>>, <<1, <<23079, 23746, 26735, 247>>, -52>> >>,
     << <<1, <<30105, 17321, 22313, 80>>, -106>>, <<1, <<14999, 28375, 5292, 249>>, -52>> >>,
     << <<1, <<17143, 12753, 18770, 105>>, -106>>, <<1, <<14613, 13019, 29959, 3>>, -46>> >>,
     << <<-1, <<25581, 18551, 24299, 241>>, -107>>, <<1, <<12165, 22222, 31741, 62>>, -50>> >>,
     << <<1, <<19869, 6947, 9453, 188>>, -108>>, <<1, <<21019, 24679, 21472, 31>>, -49>> >>,
     << <<1, <<19593, 705, 5893, 152>>, -110>>, <<1, <<29169, 22302, 20232, 254>>, -52>> >> >>]

\* The last steps of exp: r2 = r * r, tmp = tail + r + r2 * (C2 + r * C3)
\* + r2 * r2 * (C4 + r * C5), which is close to 2^(j/N) * e^r / H - 1 for
\* the table's <<tail, H>> at j = k mod N, and the result scale + scale * tmp
\* for scale = 2^(k div N) * H
ExpPoly(r, k, fused) ==
  LET r2    == FMul(r, r)
      t     == ExpData.tab[(k % 128) + 1]
      C     == ExpData.poly
      scale == <<1, t[2][2], t[2][3] + (k \div 128)>>
  IN  Fma(scale,
          Fma(FMul(r2, r2), Fma(r, C[4], C[3], fused),
              Fma(r2, Fma(r, C[2], C[1], fused), FAdd(t[1], r), fused), fused),
          scale, fused)

\* exp from the rounded kd = a * N / ln 2 on: r = a - kd * ln 2 / N, the
\* product being subtracted in two parts
ExpReduce(a, kd, fused) ==
  ExpPoly(Fma(kd, ExpData.negln2loN, Fma(kd, ExpData.negln2hiN, a, fused), fused),
          FTrunc(kd), fused)

\* np.exp(a), which for a float64 array calls the C library's exp on each
\* element, for |a| < 512.  a = k * ln 2 / N + r with k an integer, and
\* e^a = 2^(k div N) * 2^((k mod N) / N) * e^r, the last factor by the
\* polynomial; k is a * N / ln 2 rounded to an integer by adding and
\* subtracting the shift.  For |a| < 2^-54 the result is 1 + a.  The
\* library has one build of this code with fused multiply-adds and one
\* without, and takes the first on a processor that has the instruction;
\* in that build every product that is added to something is fused with
\* the addition, a * N / ln 2 + shift included.  The two builds differ in
\* the last bit of some results.
FExp(a, fused) ==
  IF BigBitLen(a[2]) + a[3] <= -54 THEN FAdd(FFromInt(1), a)
  ELSE ExpReduce(a, FSub(Fma(ExpData.invln2N, a, ExpData.shift, fused), ExpData.shift),
                 fused)

Abs(n) == IF n < 0 THEN -n ELSE n

(***************************************************************************)
(* Vectors are sequences, matrices sequences of rows.  The I-operators     *)
(* work on integer-valued arrays, held as integers, the F-operators on     *)
(* arrays of doubles.                                                      *)
(***************************************************************************)
Zeros(n) == Tup([i \in 1..n |-> 0])
FZeros(n) == Tup([i \in 1..n |-> FFromInt(0)])
\* a matrix of ones
Ones(n) == Tup([i \in 1..n |-> Tup([j \in 1..n |-> 1])])
Eye(n) == Tup([i \in 1..n |-> Tup([j \in 1..n |-> IF i = j THEN 1 ELSE 0])])
NRows(M) == Len(M)
NCols(M) == IF Len(M) = 0 THEN 0 ELSE Len(M[1])
Transpose(M) == Tup([j \in 1..NCols(M) |-> Tup([i \in 1..NRows(M) |-> M[i][j]])])
ToFVec(v) == Tup([i \in 1..Len(v) |-> FFromInt(v[i])])
ToFMat(M) == Tup([i \in 1..Len(M) |-> ToFVec(M[i])])

RECURSIVE ISum(_, _)
ISum(f, n) == IF n = 0 THEN 0 ELSE f[n] + ISum(f, n - 1)

\* the sum of f from entry i on, added to acc in the order of the entries
RECURSIVE FSum(_, _, _)
FSum(f, i, acc) ==
  IF i > Len(f) \/ Len(acc) < 3 THEN acc ELSE FSum(f, i + 1, FAdd(acc, f[i]))

FDot(u, v) == FSum(Tup([i \in 1..Len(u) |-> FMul(u[i], v[i])]), 1, FFromInt(0))

\* M @ N
IMatMul(M, N) ==
  LET NT == Transpose(N)
  IN  Tup([i \in 1..NRows(M) |-> Tup([j \in 1..NCols(N) |->
         ISum(Tup([k \in 1..NCols(M) |-> M[i][k] * NT[j][k]]), NCols(M))])])
FMatMul(M, N) ==
  LET NT == Transpose(N)
  IN  Tup([i \in 1..NRows(M) |-> Tup([j \in 1..NCols(N) |-> FDot(M[i], NT[j])])])
\* M @ v
FMatVec(M, v) == Tup([i \in 1..NRows(M) |-> FDot(M[i], v)])
IMatAdd(M, N) == Tup([i \in 1..NRows(M) |-> Tup([j \in 1..NCols(M) |-> M[i][j] + N[i][j]])])
IMatSub(M, N) == Tup([i \in 1..NRows(M) |-> Tup([j \in 1..NCols(M) |-> M[i][j] - N[i][j]])])
FVecAdd(u, v) == Tup([i \in 1..Len(u) |-> FAdd(u[i], v[i])])
FVecSub(u, v) == Tup([i \in 1..Len(u) |-> FSub(u[i], v[i])])
\* element-wise product u * v
FVecMul(u, v) == Tup([i \in 1..Len(u) |-> FMul(u[i], v[i])])

\* LAPACK's getrf from column j on: P a = L U by elimination with partial
\* pivoting.  First the pivot row, the first of the rows j .. n with the
\* largest |a[i][j]|, is brought to row j; then (swapped) the entries below
\* the pivot become the multipliers of L (the entry divided by the pivot,
\* or, with recip, multiplied by the pivot's rounded reciprocal), and each
\* row below loses its multiple of row j.  piv is the order in which the
\* rows of the matrix stand; info is the column in which no non-zero pivot
\* was found, or 0.
RECURSIVE Getrf(_, _, _, _, _)
Getrf(a, piv, j, swapped, recip) ==
  IF j > Len(a) \/ Len(piv) < 0 THEN [lu |-> a, piv |-> piv, info |-> 0]
  ELSE IF ~swapped
  THEN LET mag == Tup([i \in 1..Len(a) |-> <<1, a[i][j][2], a[i][j][3]>>])
           p == CHOOSE r \in j..Len(a) :
                  /\ \A i \in j..Len(a) : ~FLess(mag[r], mag[i])
                  /\ \A i \in j..(r - 1) : FLess(mag[i], mag[r])
       IN  Getrf([a EXCEPT ![j] = a[p], ![p] = a[j]],
                 [piv EXCEPT ![j] = piv[p], ![p] = piv[j]], j, TRUE, recip)
  ELSE IF FIsZero(a[j][j]) THEN [lu |-> a, piv |-> piv, info |-> j]
  ELSE Getrf(Tup([i \in 1..Len(a) |->
                IF i <= j THEN a[i]
                ELSE LET q == FDiv(IF recip THEN FFromInt(1) ELSE a[i][j], a[j][j])
                         l == IF recip THEN FMul(a[i][j], q) ELSE q
                     IN  Tup([k \in 1..Len(a) |->
                            IF k < j THEN a[i][k]
                            ELSE IF k = j THEN l
                            ELSE FSub(a[i][k], FMul(l, a[j][k]))])]),
             piv, j + 1, FALSE, recip)

\* LAPACK's getrs for one right-hand side b, by columns from column k on:
\* first L y = b for the unit lower triangle L of lu, k going up, then
\* (upper) U x = y for the upper triangle U, k going down.  A column whose
\* b[k] is zero is skipped.
RECURSIVE Getrs(_, _, _, _, _)
Getrs(lu, b, k, upper, recip) ==
  IF ~upper /\ k > Len(b) THEN Getrs(lu, b, Len(b), TRUE, recip)
  ELSE IF upper /\ k = 0 THEN b
  ELSE IF FIsZero(b[k]) THEN Getrs(lu, b, IF upper THEN k - 1 ELSE k + 1, upper, recip)
  ELSE Getrs(lu,
             LET q == FDiv(IF upper /\ ~recip THEN b[k] ELSE FFromInt(1),
                           IF upper THEN lu[k][k] ELSE FFromInt(1))
                 x == IF upper /\ ~recip THEN q ELSE FMul(b[k], q)
             IN  Tup([i \in 1..Len(b) |->
                    IF (upper /\ i < k) \/ (~upper /\ i > k)
                    THEN FSub(b[i], FMul(x, lu[i][k]))
                    ELSE IF i = k THEN x ELSE b[i]]),
             IF upper THEN k - 1 ELSE k + 1, upper, recip)

\* the solutions of L U x = P e for the columns e of the identity, as the
\* columns of a matrix; <<>> for a factorization that met a zero pivot
Gesv(f, recip) ==
  IF f.info # 0 THEN <<>>
  ELSE Transpose(Tup([c \in 1..Len(f.piv) |->
         Getrs(f.lu, Tup([i \in 1..Len(f.piv) |-> FFromInt(IF f.piv[i] = c THEN 1 ELSE 0)]),
               1, FALSE, recip)]))

\* np.linalg.inv(M): LAPACK's gesv with the identity as right-hand side,
\* which factors M and solves for each column of the identity; <<>> when
\* the factorization meets a zero pivot (numpy raises LinAlgError).
\* LAPACK builds differ in how they divide by a pivot, by the pivot or by
\* multiplying with its rounded reciprocal, and with that in the last bits
\* of the result.  The choice is made in the factorization (recip) and in
\* the triangular solve (recipSolve) separately: the reference LAPACK
\* scales by the reciprocal in getrf and divides in getrs, other builds do
\* the same in both.
Inverse(M, recip, recipSolve) ==
  Gesv(Getrf(ToFMat(M), Tup([i \in 1..NRows(M) |-> i]), 1, FALSE, recip), recipSolve)

(***************************************************************************)
(* The MjModel.  The notebook loads humanoid.xml; the model here is a      *)
(* small articulated body of the same kind: a free root joint (3 slide     *)
(* and 3 rotation degrees of freedom, 7 position coordinates, the last 4   *)
(* a unit quaternion) followed by hinge joints, each driven by one motor.  *)
(* A joint name is the sequence of the characters of its MuJoCo name; the *)
(* notebook's tests 'left' in name look for a substring.  Degrees of       *)
(* freedom and coordinates are numbered from 1 (Python's qpos[2] is        *)
(* qpos[3] here).                                                          *)
(***************************************************************************)
\* the joint names root, abdomen_y, knee_left and elbow_right
RootName == <<"r", "o", "o", "t">>
HingeNames ==
  << <<"a", "b", "d", "o", "m", "e", "n", "_", "y">>,
     <<"k", "n", "e", "e", "_", "l", "e", "f", "t">>,
     <<"e", "l", "b", "o", "w", "_", "r", "i", "g", "h", "t">> >>
\* hinge names of which one passes both the abdomen and the left-leg test:
\* abdomen_knee_left
DoubledNames ==
  [HingeNames EXCEPT ![2] = <<"a", "b", "d", "o", "m", "e", "n", "_", "k", "n", "e", "e", "_", "l", "e", "f", "t">>]
Gears == <<1, 2, 1>>
\* the torque each hinge needs to hold the keyframe pose
HoldTorque == <<3, -2, 1>>

\* the scanned height offsets reach HalfSpan steps below and above the
\* keyframe height (the notebook: 1000 steps of 1e-6 m each way)
HalfSpan == 1
\* how far the simulated body drifts from its initial pose, in kicks of
\* each kind
MaxDrift == 1

NumOffsets == 2 * HalfSpan + 1


\* the vertical force that inverse dynamics reports on the root, by height
\* offset: a curve with its zero crossing inside the scanned interval, and
\* one with none up to the interval's upper end
CurveInside == [z \in (-HalfSpan)..HalfSpan |-> IF z < 0 THEN -2 ELSE IF z = 0 THEN 0 ELSE 2]
CurveOutside == [z \in (-HalfSpan)..HalfSpan |-> IF z < HalfSpan THEN -2 ELSE -1]
\* a curve that takes its smallest magnitude at several offsets, with both
\* signs
CurveTied ==
  [z \in (-HalfSpan)..HalfSpan |-> IF z < 0 THEN -2 ELSE IF z % 2 = 0 THEN 1 ELSE -1]

\* stabilizable: whether the linearization at the model's trim point is
\* one the Riccati solver can solve
MjModel(ts, curve, stab) ==
  [timestep |-> ts, joints |-> <<RootName>> \o HingeNames, gear |-> Gears,
   hold |-> HoldTorque, vforce |-> curve, stabilizable |-> stab]

\* The models that every cell of the notebook is run on.  They are not the
\* shipped humanoid.xml: the timesteps are 0.1, 0.3, 0.5 and 1.0, so that
\* the trace of the disturbed cell has 12 to 120 rows and its kernel 0 to 8
\* taps (at the shipped timestep 0.005 the trace has 2400 rows and the
\* kernel 160 taps), and the variants of the 0.5 model differ in the force
\* curve, the joints and the stabilizability.  Further timesteps, at which
\* the rounding of the time sum decides the loops' tick counts, are those
\* of LoopModels below.
Models ==
  { MjModel(Dec(1, 10), CurveInside, TRUE),
    MjModel(Dec(3, 10), CurveInside, TRUE),
    MjModel(Dec(5, 10), CurveInside, TRUE),
    MjModel(FFromInt(1), CurveInside, TRUE),
    MjModel(Dec(5, 10), CurveOutside, TRUE),
    MjModel(Dec(5, 10), CurveTied, TRUE),
    [MjModel(Dec(5, 10), CurveInside, TRUE) EXCEPT !.joints = <<RootName>> \o DoubledNames],
    MjModel(Dec(5, 10), CurveInside, FALSE) }

njnt(m) == Len(m.joints)
nq(m) == 7 + (njnt(m) - 1)
nv(m) == 6 + (njnt(m) - 1)
nu(m) == Len(m.gear)
\* model.joint(j).dofadr[0], for joint j = 1 (root), 2, ...
dofadr(m, j) == IF j = 1 THEN 1 ELSE 6 + (j - 1)
\* model.actuator(i).trnid[0]: motor i drives hinge i
trnid(m, i) == i + 1

\* keyframe 1 and the default pose
KeyQpos(m) == <<0, 0, 0>> \o <<0, 0, 1, 0>> \o Zeros(njnt(m) - 1)
DefaultQpos(m) == <<0, 0, 2>> \o <<1, 0, 0, 0>> \o Zeros(njnt(m) - 1)

(***************************************************************************)
(* The Dynamics Oracle (MuJoCo), as far as the notebook uses it.           *)
(***************************************************************************)
\* Hamilton product of two quaternions <<w, x, y, z>>
QuatMul(p, q) ==
  << p[1]*q[1] - p[2]*q[2] - p[3]*q[3] - p[4]*q[4],
     p[1]*q[2] + p[2]*q[1] + p[3]*q[4] - p[4]*q[3],
     p[1]*q[3] - p[2]*q[4] + p[3]*q[1] + p[4]*q[2],
     p[1]*q[4] + p[2]*q[3] - p[3]*q[2] + p[4]*q[1] >>

\* mju_subQuat(qa, qb): the rotation from qb to qa (the conjugate of qb
\* times qa) as a 3-vector, in half turns.  The model's quaternions have one component +-1 and the others 0:
\* the difference quaternion is a rotation by 0 or by a full turn (no
\* rotation) or by a half turn about an axis.
SubQuat(qa, qb) ==
  LET qdif == QuatMul(<<qb[1], -qb[2], -qb[3], -qb[4]>>, qa)
  IN  IF qdif[1] # 0 THEN <<0, 0, 0>> ELSE <<qdif[2], qdif[3], qdif[4]>>

\* component-wise subtraction of two positions: nq components
RawDifference(m, qpos1, qpos2) == Tup([i \in 1..nq(m) |-> qpos2[i] - qpos1[i]])

\* mj_differentiatePos(model, dq, 1, qpos1, qpos2): qpos2 - qpos1 in the
\* tangent space, nv components
DifferentiatePos(m, qpos1, qpos2) ==
  Tup([i \in 1..3 |-> qpos2[i] - qpos1[i]])
    \o SubQuat(SubSeq(qpos2, 4, 7), SubSeq(qpos1, 4, 7))
    \o Tup([j \in 1..(njnt(m) - 1) |-> qpos2[7 + j] - qpos1[7 + j]])

\* quaternion of a rotation by w half turns about the x, y or z axis
RECURSIVE QuatPow(_, _)
QuatPow(q, n) == IF n = 0 THEN <<1, 0, 0, 0>> ELSE QuatMul(QuatPow(q, n - 1), q)
RotQuat(w) ==
  QuatMul(QuatMul(QuatPow(<<0, 1, 0, 0>>, w[1] % 4), QuatPow(<<0, 0, 1, 0>>, w[2] % 4)),
          QuatPow(<<0, 0, 0, 1>>, w[3] % 4))

\* mj_integratePos: the position reached from qpos with velocity v over one
\* step (in position units per step)
IntegratePos(m, qpos, v) ==
  Tup([i \in 1..3 |-> qpos[i] + v[i]])
    \o QuatMul(SubSeq(qpos, 4, 7), RotQuat(SubSeq(v, 4, 6)))
    \o Tup([j \in 1..(njnt(m) - 1) |-> qpos[7 + j] + v[6 + j]])

UnitVec(n, i) == Tup([k \in 1..n |-> IF k = i THEN 1 ELSE 0])
VecAdd(u, v) == Tup([i \in 1..Len(u) |-> u[i] + v[i]])

\* the velocities a step can leave the body with: rest, a rise that turns
\* the root by half a turn, or a sideways motion that bends the first hinge
Kicks(m) ==
  { Zeros(nv(m)),
    VecAdd(UnitVec(nv(m), 3), UnitVec(nv(m), 4)),
    VecAdd(UnitVec(nv(m), 1), UnitVec(nv(m), 7)) }

\* the body stays within MaxDrift kicks of each kind of where it started
InReach(m, start, qpos) ==
  /\ qpos[3] - start[3] \in 0..MaxDrift
  /\ qpos[1] - start[1] \in 0..MaxDrift

\* mj_forward: the acceleration of the body under gravity and its controls
Gravity(m) == Tup([i \in 1..nv(m) |-> IF i = 3 THEN -1 ELSE 0])

\* mj_inverse at rest: the generalized force that explains acceleration qacc
\* at position qpos (heights are measured from the keyframe height)
InverseForce(m, qpos, qacc) ==
  Tup([i \in 1..nv(m) |->
     IF i = 3 THEN m.vforce[qpos[3]] + qacc[3]
     ELSE IF i > 6 THEN m.hold[i - 6] + qacc[i]
     ELSE qacc[i]])

\* data.actuator_moment as a dense nu x nv matrix
Moment(m) ==
  Tup([i \in 1..nu(m) |->
     Tup([j \in 1..nv(m) |-> IF j = dofadr(m, trnid(m, i)) THEN m.gear[i] ELSE 0])])

\* the toy Jacobians of the torso's subtree centre of mass and of the left
\* foot (3 x nv): both follow the root's translation, the hinges move them
\* differently
JacCom(m) ==
  Tup([r \in 1..3 |-> Tup([j \in 1..nv(m) |->
     IF j = r THEN 1 ELSE IF r = 1 /\ j = 5 THEN 1 ELSE IF r = 1 /\ j > 6 THEN 1 ELSE 0])])
JacFoot(m) ==
  Tup([r \in 1..3 |-> Tup([j \in 1..nv(m) |->
     IF j = r THEN 1 ELSE IF r = 1 /\ j = 8 THEN 2 ELSE 0])])

\* a value no finite entry takes, standing for NaN / Inf
NaN == -(2^30)
IsFinite(M) == \A i \in 1..NRows(M) : \A j \in 1..NCols(M) : M[i][j] # NaN

\* mjd_transitionFD's reply at the trim point: positions advance by the
\* velocities, the motors accelerate their hinges
FiniteA(m) ==
  Tup([i \in 1..(2 * nv(m)) |-> Tup([j \in 1..(2 * nv(m)) |->
     IF i = j THEN 1 ELSE IF i <= nv(m) /\ j = i + nv(m) THEN 1 ELSE 0])])
FiniteB(m) ==
  Tup([i \in 1..(2 * nv(m)) |-> Tup([j \in 1..nu(m) |->
     IF i = nv(m) + dofadr(m, trnid(m, j)) THEN m.gear[j] ELSE 0])])
WithNaN(M) == [M EXCEPT ![1][1] = NaN]
Linearizations(m) ==
  { [A |-> FiniteA(m), B |-> FiniteB(m)],
    [A |-> WithNaN(FiniteA(m)), B |-> FiniteB(m)],
    [A |-> FiniteA(m), B |-> WithNaN(FiniteB(m))] }

\* solve_discrete_are's replies: a positive semi-definite P = G^T G for a
\* stabilizable pair; otherwise an exception, or a P with a negative
\* diagonal entry (not positive semi-definite)
RiccatiG(m) ==
  Tup([i \in 1..(2 * nv(m)) |-> Tup([j \in 1..(2 * nv(m)) |->
     IF i = j THEN 1
     ELSE IF i = nv(m) + 7 /\ j \in {3, 4} THEN 1
     ELSE IF i = nv(m) + 8 /\ j = 8 THEN 1
     ELSE 0])])
GoodP(m) == IMatMul(Transpose(RiccatiG(m)), RiccatiG(m))
BadP(m) == [GoodP(m) EXCEPT ![1][1] = -1]
RiccatiReplies(m) == IF m.stabilizable THEN {"good"} ELSE {"LinAlgError", "bad"}

(***************************************************************************)
(* The disturbance generator's arithmetic.                                 *)
(***************************************************************************)
\* np.random.seed(1) followed by np.random.randn: the first draws of the
\* seeded generator, in the order drawn
Randn1 ==
  <<
     <<1, <<22469, 12812, 32596, 12>>, -48>>, <<-1, <<22957, 24431, 19976, 156>>, -53>>, <<-1, <<18409, 29268, 19856, 67>>, -52>>,
     <<-1, <<11779, 4782, 10977, 34>>, -50>>, <<1, <<4477, 11882, 17837, 221>>, -53>>, <<-1, <<8793, 15769, 9780, 147>>, -51>>,
     <<1, <<17925, 31519, 11006, 223>>, -52>>, <<-1, <<22523, 4890, 14237, 97>>, -52>>, <<1, <<24265, 31350, 27426, 40>>, -52>>,
     <<-1, <<4579, 21410, 22204, 127>>, -54>>, <<1, <<9275, 19149, 18838, 93>>, -51>>, <<-1, <<26301, 1713, 31531, 32>>, -49>>,
     <<-1, <<31771, 17593, 17655, 82>>, -53>>, <<-1, <<32485, 23461, 5208, 49>>, -52>>, <<1, <<3787, 23169, 4013, 145>>, -52>>,
     <<-1, <<5179, 19186, 6439, 35>>, -50>>, <<-1, <<25713, 10506, 2320, 22>>, -52>>, <<-1, <<22903, 2415, 11989, 112>>, -52>>,
     <<1, <<25731, 9621, 7434, 43>>, -55>>, <<1, <<21713, 5968, 19672, 74>>, -52>>, <<-1, <<22243, 23223, 14405, 70>>, -51>>,
     <<1, <<15433, 20235, 8595, 73>>, -51>>, <<1, <<11147, 18538, 13225, 115>>, -52>>, <<1, <<18171, 1024, 20924, 128>>, -53>>,
     <<1, <<27911, 13855, 20287, 230>>, -53>>, <<-1, <<4675, 32417, 1124, 175>>, -53>>, <<-1, <<25185, 23449, 27511, 125>>, -55>>,
     <<-1, <<27065, 24267, 29138, 59>>, -51>>, <<-1, <<13875, 1439, 9492, 34>>, -52>>, <<1, <<14669, 12316, 1989, 1>>, -46>>,
     <<-1, <<25667, 14994, 17451, 88>>, -52>>, <<-1, <<21047, 20277, 4515, 203>>, -54>>, <<-1, <<30555, 13421, 30022, 175>>, -53>>,
     <<-1, <<14053, 26408, 12210, 216>>, -53>>, <<-1, <<22387, 21728, 27492, 171>>, -53>>, <<-1, <<20029, 12643, 24523, 103>>, -58>>,
     <<-1, <<31687, 26742, 24704, 35>>, -50>>, <<1, <<12771, 22905, 170, 30>>, -52>>, <<1, <<17295, 29840, 14898, 212>>, -52>>,
     <<1, <<24829, 25915, 32166, 94>>, -52>>, <<-1, <<7001, 16333, 7202, 98>>, -54>>, <<-1, <<14859, 19895, 3310, 7>>, -48>>,
     <<-1, <<12453, 4178, 31278, 11>>, -49>>, <<1, <<4089, 3372, 20781, 216>>, -52>>, <<1, <<24307, 13461, 3557, 208>>, -57>>,
     <<-1, <<23257, 9613, 17956, 2>>, -47>>, <<1, <<12109, 21234, 16300, 195>>, -55>>, <<1, <<15111, 4259, 6821, 67>>, -50>>,
     <<1, <<28515, 26229, 2802, 246>>, -56>>, <<1, <<23049, 30923, 130, 158>>, -53>>, <<1, <<11053, 9656, 22518, 153>>, -54>>,
     <<-1, <<24309, 30806, 2882, 45>>, -52>>, <<-1, <<28777, 21234, 7940, 146>>, -52>>, <<-1, <<30839, 10221, 28294, 178>>, -54>>,
     <<-1, <<30209, 11434, 29743, 213>>, -55>>, <<1, <<31865, 32588, 5751, 150>>, -53>>, <<1, <<9103, 16015, 12775, 107>>, -52>>,
     <<1, <<32145, 19398, 19350, 59>>, -51>>, <<1, <<20513, 3975, 3616, 73>>, -53>>, <<1, <<5841, 18446, 21267, 56>>, -51>>,
     <<-1, <<379, 9880, 18446, 96>>, -52>>, <<1, <<13585, 15687, 3007, 40>>, -50>>, <<1, <<31445, 22424, 16807>>, -45>>,
     <<-1, <<613, 31806, 5107, 38>>, -52>>, <<1, <<6381, 20188, 17377, 62>>, -52>>, <<-1, <<19717, 29677, 12629, 77>>, -55>>,
     <<1, <<15877, 21833, 27805, 144>>, -52>>, <<1, <<18135, 14355, 20779, 48>>, -50>>, <<1, <<961, 27360, 28731, 139>>, -51>>,
     <<-1, <<15609, 12842, 12992, 1>>, -45>>, <<-1, <<2909, 17656, 3467, 23>>, -49>>, <<-1, <<13739, 12243, 4694, 129>>, -53>>,
     <<1, <<8887, 7899, 31768, 40>>, -53>>, <<1, <<31647, 6973, 16537, 3>>, -47>>, <<1, <<4991, 27640, 26297, 80>>, -53>>,
     <<-1, <<19075, 27231, 11639, 32>>, -49>>, <<-1, <<9347, 11714, 19564, 19>>, -51>>, <<1, <<19211, 23290, 31506, 211>>, -53>>,
     <<1, <<31091, 20789, 23791, 14>>, -51>>, <<1, <<3157, 2728, 2453, 195>>, -53>>, <<-1, <<15817, 20831, 30015, 56>>, -53>>,
     <<-1, <<12711, 31862, 18882, 205>>, -55>>, <<1, <<22389, 16637, 1273, 191>>, -55>>, <<1, <<2949, 1847, 31013, 209>>, -54>>,
     <<1, <<3599, 15552, 1930, 203>>, -55>>, <<1, <<5783, 16815, 28339, 121>>, -55>>, <<-1, <<23043, 16712, 27681, 85>>, -52>>,
     <<1, <<16121, 6451, 10245, 193>>, -54>>, <<1, <<2361, 3515, 16055, 249>>, -56>>, <<1, <<28805, 28602, 18806, 144>>, -52>>,
     <<1, <<4359, 16870, 11972, 38>>, -50>>, <<1, <<7731, 19823, 13108, 47>>, -53>>, <<-1, <<11603, 10964, 2390, 96>>, -53>>,
     <<-1, <<8273, 16479, 24821, 81>>, -52>>, <<1, <<16031, 8287, 27168, 216>>, -54>>, <<1, <<7591, 2106, 6430, 79>>, -55>>,
     <<-1, <<32063, 22731, 869, 88>>, -53>>, <<1, <<24251, 25167, 21075, 44>>, -55>>, <<-1, <<32667, 161, 27526, 19>>, -50>>,
     <<1, <<20789, 3449, 22813, 178>>, -53>>, <<-1, <<16377, 16750, 30468, 228>>, -54>>, <<1, <<14229, 25629, 12074, 78>>, -51>>,
     <<1, <<27961, 7020, 9629, 103>>, -53>>, <<1, <<26947, 1585, 24531, 4>>, -48>>, <<-1, <<12201, 18583, 2436, 70>>, -51>>,
     <<1, <<32621, 10880, 14667, 173>>, -55>>, <<1, <<9841, 7050, 31530, 2>>, -47>>, <<-1, <<28875, 29181, 20630, 7>>, -48>>,
     <<-1, <<1125, 22584, 4978, 68>>, -53>>, <<1, <<32621, 9653, 22893, 16>>, -54>>, <<-1, <<32479, 15360, 24871, 175>>, -52>>,
     <<1, <<21541, 6380, 11849, 161>>, -54>>, <<1, <<20919, 16200, 5055, 54>>, -51>>, <<-1, <<14735, 4872, 591, 110>>, -52>>,
     <<1, <<21359, 19725, 15713, 179>>, -54>>, <<-1, <<4549, 18379, 31859, 167>>, -52>>, <<-1, <<24155, 27340, 20453, 39>>, -55>>,
     <<-1, <<13435, 14759, 26832, 206>>, -52>>, <<1, <<7195, 22768, 29011, 35>>, -50>>, <<1, <<5749, 5304, 11117, 52>>, -52>>,
     <<-1, <<15339, 29095, 27231, 100>>, -57>>, <<-1, <<17715, 31452, 14462, 198>>, -53>>, <<1, <<29101, 26097, 17051, 81>>, -51>>,
     <<1, <<8377, 12047, 29311, 125>>, -51>>, <<-1, <<28811, 6274, 14923, 59>>, -50>>, <<1, <<9545, 30618, 18259, 39>>, -50>>,
     <<1, <<11441, 1057, 5559, 104>>, -51>>, <<1, <<31609, 7993, 2031, 173>>, -54>>, <<-1, <<4691, 22160, 12339, 38>>, -50>>,
     <<1, <<3307, 11776, 8326, 55>>, -51>>, <<-1, <<28337, 22500, 25868, 5>>, -50>>, <<-1, <<3835, 13424, 19781, 154>>, -53>>,
     <<-1, <<24139, 11793, 27540, 9>>, -48>>, <<1, <<4355, 7964, 30723, 140>>, -53>>, <<1, <<12169, 293, 15705, 101>>, -52>>,
     <<-1, <<26971, 14208, 26605, 79>>, -52>>, <<1, <<9909, 27059, 8766, 133>>, -53>>, <<-1, <<16349, 21884, 15587, 146>>, -52>>,
     <<1, <<24619, 28404, 9057, 205>>, -53>>, <<1, <<27921, 32557, 24236, 190>>, -57>>, <<-1, <<21171, 23747, 1554, 191>>, -55>>,
     <<-1, <<323, 31492, 6152, 104>>, -55>>, <<1, <<6369, 22409, 7124, 111>>, -52>>, <<1, <<16651, 2800, 3453, 192>>, -53>>,
     <<1, <<22523, 20707, 30896, 16>>, -50>>, <<1, <<31155, 29070, 197, 141>>, -55>>, <<1, <<10721, 16037, 12375, 159>>, -56>>,
     <<1, <<20865, 20081, 10005, 158>>, -53>>, <<1, <<22205, 28715, 2438, 238>>, -55>>, <<1, <<9703, 3146, 12012, 87>>, -52>>,
     <<-1, <<28535, 1548, 12776, 79>>, -53>>, <<-1, <<16213, 29054, 27184, 155>>, -51>>, <<1, <<17201, 5992, 31770, 132>>, -52>>,
     <<1, <<11567, 24268, 31676, 139>>, -51>>, <<1, <<20809, 9903, 32417, 112>>, -53>>, <<-1, <<21355, 30451, 3863, 205>>, -56>>,
     <<-1, <<19881, 28862, 23573, 139>>, -55>>, <<-1, <<27223, 21233, 29867, 121>>, -55>>, <<1, <<7217, 7466, 10123, 71>>, -57>>,
     <<-1, <<24217, 29835, 29641, 35>>, -50>>, <<-1, <<23831, 11574, 6163, 66>>, -52>>, <<-1, <<32277, 19683, 31988, 7>>, -48>>,
     <<1, <<25273, 17774, 25242, 254>>, -55>>, <<-1, <<21131, 25984, 16138, 9>>, -50>>, <<1, <<945, 22086, 25365, 126>>, -53>>,
     <<-1, <<17103, 10598, 23724, 44>>, -53>>, <<1, <<12453, 26601, 4110, 63>>, -51>>, <<1, <<21169, 20677, 23208, 1>>, -48>>,
     <<1, <<16289, 10420, 6710, 140>>, -51>>, <<-1, <<22083, 3347, 12029, 121>>, -51>>, <<-1, <<10703, 8297, 26389, 82>>, -52>>,
     <<1, <<27859, 4953, 25580, 230>>, -53>>, <<1, <<31343, 21506, 29701, 80>>, -50>>, <<-1, <<16025, 15095, 31336, 7>>, -50>>,
     <<1, <<20925, 1587, 28449, 178>>, -57>>, <<-1, <<867, 28215, 24437, 231>>, -55>>, <<1, <<29147, 29266, 13975, 170>>, -52>>,
     <<-1, <<3443, 4268, 6352, 9>>, -50>>, <<1, <<14241, 9809, 3207, 174>>, -53>>, <<-1, <<20033, 8222, 28482, 81>>, -53>>,
     <<-1, <<10493, 4544, 14541, 81>>, -51>>, <<1, <<1659, 30024, 8788, 80>>, -53>>, <<1, <<18179, 2481, 13358, 64>>, -52>>,
     <<1, <<4511, 16122, 17462, 165>>, -52>>, <<-1, <<8017, 15566, 6406, 226>>, -56>>, <<-1, <<30837, 5677, 732, 79>>, -52>>,
     <<1, <<4853, 7772, 2190, 144>>, -53>>, <<1, <<12125, 12824, 16868, 246>>, -55>>, <<1, <<16211, 20399, 22954, 143>>, -54>>,
     <<-1, <<8973, 8068, 28423, 74>>, -55>>, <<1, <<4611, 23117, 17148, 148>>, -52>>, <<1, <<26999, 3704, 5907, 189>>, -54>>,
     <<1, <<23453, 20939, 26093, 243>>, -52>>, <<1, <<3459, 25477, 3526, 71>>, -51>>, <<1, <<15957, 26181, 2935, 21>>, -50>>,
     <<-1, <<16603, 4646, 10227, 208>>, -52>>, <<1, <<31453, 17748, 8985, 19>>, -50>>, <<1, <<20689, 10208, 6045, 215>>, -54>>,
     <<1, <<8003, 30229, 29520, 51>>, -51>>, <<1, <<21927, 21482, 22563, 133>>, -52>>, <<-1, <<28545, 436, 8180, 205>>, -54>>,
     <<1, <<28579, 2014, 15490, 105>>, -52>>, <<-1, <<29019, 30098, 31951, 71>>, -52>>, <<1, <<30003, 29147, 29810, 3>>, -46>>,
     <<-1, <<23215, 3320, 8025, 85>>, -51>>, <<-1, <<11603, 31817, 1400, 7>>, -47>>, <<-1, <<27507, 26480, 9578, 211>>, -52>>,
     <<-1, <<983, 22864, 32185, 227>>, -53>>, <<-1, <<14719, 6312, 8086, 143>>, -52>>, <<1, <<27617, 25724, 6194, 125>>, -51>>,
     <<-1, <<32697, 9881, 19132, 83>>, -53>>, <<-1, <<7415, 14224, 28262, 171>>, -52>>, <<1, <<20535, 32015, 21004, 142>>, -52>>,
     <<-1, <<27199, 13283, 4919, 150>>, -53>>, <<-1, <<5217, 2118, 10395, 158>>, -52>>, <<1, <<8841, 27515, 439, 14>>, -49>>,
     <<1, <<27059, 30845, 19028, 159>>, -53>>, <<-1, <<1245, 3614, 11433, 111>>, -53>>, <<1, <<4361, 21403, 5410, 180>>, -52>>,
     <<1, <<1579, 17838, 1638, 33>>, -53>>, <<1, <<31417, 2789, 15885, 103>>, -51>>, <<1, <<10295, 6051, 22992, 128>>, -53>>,
     <<1, <<4871, 10297, 17272, 199>>, -52>>, <<1, <<20061, 22139, 1858, 224>>, -56>>, <<-1, <<2195, 13160, 2085, 78>>, -51>>,
     <<1, <<17407, 5916, 12445, 78>>, -50>>, <<-1, <<4957, 18079, 23533, 139>>, -53>>, <<-1, <<15465, 18000, 19987, 203>>, -55>>,
     <<-1, <<23943, 8217, 21332, 89>>, -52>>, <<-1, <<26611, 19774, 4520, 104>>, -54>>, <<1, <<11013, 8495, 16171, 248>>, -55>>,
     <<1, <<2537, 412, 22089, 206>>, -55>>, <<1, <<21287, 2382, 7248, 169>>, -53>>, <<1, <<28043, 11289, 12984, 229>>, -52>>,
     <<-1, <<4265, 2314, 27490, 30>>, -53>>, <<-1, <<12447, 7640, 27507, 157>>, -52>>, <<-1, <<15065, 21210, 11033, 151>>, -52>>,
     <<-1, <<2853, 22197, 14193, 170>>, -53>>, <<-1, <<11661, 5658, 9734, 214>>, -52>>, <<1, <<5381, 25740, 6803, 211>>, -53>>,
     <<-1, <<1449, 18716, 2796, 255>>, -54>>, <<-1, <<14957, 17643, 26413, 39>>, -52>>, <<-1, <<30289, 15239, 31464, 123>>, -61>>,
     <<-1, <<539, 20754, 25146, 178>>, -52>>, <<-1, <<24301, 10306, 16285, 220>>, -53>>, <<1, <<1683, 8226, 11897, 86>>, -52>>,
     <<1, <<16297, 9857, 11338, 158>>, -53>>, <<-1, <<10575, 19767, 14811, 113>>, -53>>, <<1, <<31459, 30022, 28646, 115>>, -51>>,
     <<-1, <<18043, 21436, 4359, 167>>, -52>>, <<-1, <<27873, 15433, 10378, 88>>, -53>>, <<-1, <<4485, 7601, 6224, 118>>, -54>>,
     <<-1, <<18925, 7770, 5647, 11>>, -47>>, <<1, <<2539, 18131, 16391, 15>>, -48>>, <<1, <<11475, 21883, 25591, 93>>, -53>>,
     <<-1, <<12131, 13857, 23181, 133>>, -52>>, <<1, <<31837, 7995, 20891, 65>>, -50>>, <<1, <<345, 15400, 31612, 74>>, -52>>,
     <<1, <<31003, 27157, 30060, 219>>, -54>>, <<-1, <<19311, 20287, 12831, 155>>, -53>>, <<1, <<17247, 11173, 17830, 217>>, -56>>,
     <<-1, <<27795, 25010, 26927, 48>>, -50>>, <<1, <<11935, 8385, 17258, 203>>, -53>>, <<-1, <<8343, 9075, 28056, 95>>, -53>>,
     <<1, <<3455, 17957, 20731, 68>>, -54>>, <<1, <<9537, 15394, 20199, 9>>, -48>>, <<1, <<3663, 2299, 7336, 18>>, -51>>,
     <<1, <<28893, 16801, 6280, 67>>, -53>>, <<1, <<32535, 9188, 25684, 70>>, -53>>, <<-1, <<3497, 698, 28140, 93>>, -52>>,
     <<1, <<22901, 30760, 281, 107>>, -52>>, <<1, <<14573, 9564, 18021, 197>>, -52>>, <<1, <<16049, 20164, 4165, 97>>, -52>>,
     <<1, <<18037, 4752, 10390, 28>>, -50>>, <<-1, <<28991, 25160, 19138, 224>>, -53>>, <<-1, <<1843, 27528, 5030, 222>>, -53>>,
     <<-1, <<12833, 591, 3540, 46>>, -50>>, <<1, <<21603, 32505, 28317, 78>>, -51>>, <<-1, <<26349, 26794, 8765, 16>>, -51>>,
     <<1, <<11555, 17159, 19333, 89>>, -51>>, <<-1, <<145, 9776, 2775, 100>>, -52>>, <<-1, <<9165, 27471, 18, 28>>, -51>>,
     <<1, <<5349, 9818, 28103, 48>>, -54>>, <<1, <<17419, 13682, 29203, 235>>, -53>>, <<1, <<20093, 5143, 3411, 31>>, -54>>,
     <<1, <<11267, 7714, 6283, 216>>, -55>>, <<1, <<22525, 18567, 15142, 8>>, -54>>, <<1, <<26787, 5370, 22283, 22>>, -52>>,
     <<-1, <<15473, 10844, 14879, 71>>, -51>>, <<1, <<5285, 3536, 9661, 1>>, -49>>, <<-1, <<9831, 2464, 17316, 95>>, -54>>,
     <<-1, <<9721, 23569, 24676, 232>>, -57>>, <<1, <<30861, 6091, 625, 63>>, -52>>, <<-1, <<28899, 24981, 25614, 21>>, -50>>,
     <<-1, <<19879, 23527, 2373, 173>>, -56>>, <<-1, <<23379, 17484, 16894, 9>>, -50>>, <<1, <<1631, 28662, 21581, 213>>, -54>>,
     <<1, <<8045, 11838, 29533, 200>>, -53>>, <<-1, <<11497, 32757, 9647, 122>>, -52>>, <<1, <<4709, 30462, 32540, 149>>, -53>>,
     <<1, <<31529, 11512, 8622, 8>>, -47>>, <<-1, <<24915, 22587, 5047, 94>>, -51>>, <<-1, <<31195, 19739, 17170, 212>>, -53>>,
     <<-1, <<24059, 2446, 11697, 56>>, -51>>, <<-1, <<21593, 12442, 14713, 71>>, -53>>, <<1, <<16701, 13520, 23746, 207>>, -52>>,
     <<1, <<19691, 28902, 22693, 54>>, -57>>, <<-1, <<31293, 8223, 27576, 177>>, -53>>, <<1, <<31465, 27873, 5953, 159>>, -53>>,
     <<-1, <<9239, 2876, 18021, 153>>, -53>>, <<1, <<383, 4090, 26108, 143>>, -52>>, <<1, <<20701, 25164, 2430, 39>>, -52>>,
     <<1, <<19843, 32024, 25026, 177>>, -52>>, <<-1, <<11979, 19951, 9965, 169>>, -53>>, <<1, <<25883, 1799, 31944, 193>>, -51>>,
     <<1, <<22935, 19369, 17918, 105>>, -52>>, <<1, <<3813, 9982, 18760, 167>>, -53>>, <<-1, <<28139, 18640, 27326, 104>>, -56>>,
     <<-1, <<4385, 29464, 28718, 92>>, -52>>, <<-1, <<24091, 8888, 4875, 222>>, -53>>, <<-1, <<12181, 15910, 26548, 34>>, -53>>,
     <<-1, <<16739, 30316, 827, 51>>, -51>>, <<1, <<12291, 28527, 5979, 36>>, -52>>, <<-1, <<83, 24995, 24263, 105>>, -52>>,
     <<1, <<24679, 10253, 32675, 158>>, -53>>, <<1, <<17269, 5773, 25138, 244>>, -53>>, <<-1, <<1007, 10719, 22779, 180>>, -53>>,
     <<1, <<6881, 32315, 5437, 38>>, -50>>, <<-1, <<17281, 8243, 27075, 121>>, -54>>, <<1, <<27683, 19718, 28732, 147>>, -52>>,
     <<1, <<23369, 23796, 5589, 112>>, -53>>, <<1, <<17595, 5532, 21562, 143>>, -52>>, <<-1, <<7651, 1908, 26518, 63>>, -51>>,
     <<-1, <<10303, 18592, 11699, 109>>, -55>>, <<1, <<8419, 18134, 25655, 185>>, -52>>, <<-1, <<32117, 27680, 7124, 158>>, -53>>,
     <<-1, <<23661, 20474, 12480, 130>>, -51>>, <<-1, <<2509, 25792, 10672, 124>>, -51>>, <<-1, <<28463, 16836, 6753, 80>>, -50>>,
     <<-1, <<4159, 17976, 21405, 67>>, -50>>, <<-1, <<28163, 5074, 24879, 210>>, -54>>, <<1, <<10773, 14810, 21351, 163>>, -52>>,
     <<-1, <<12153, 16531, 2479, 7>>, -49>>, <<1, <<6097, 9610, 21168, 165>>, -54>>, <<-1, <<21221, 32395, 10342, 56>>, -54>>,
     <<1, <<3521, 4354, 2160, 140>>, -59>>, <<-1, <<24485, 17389, 7720, 172>>, -55>>, <<-1, <<21725, 17000, 11818, 178>>, -55>>,
     <<1, <<27821, 7031, 16859, 29>>, -51>>, <<-1, <<829, 6740, 20691, 37>>, -50>>, <<1, <<20561, 3771, 10619, 32>>, -50>>,
     <<1, <<16919, 9675, 27526, 1>>, -46>>, <<-1, <<3939, 9192, 24206, 199>>, -55>>, <<1, <<13209, 23647, 5921, 206>>, -53>>,
     <<-1, <<1693, 30576, 14516, 22>>, -50>>, <<-1, <<16049, 22214, 25052, 68>>, -52>>, <<1, <<10249, 1511, 29, 10>>, -51>>,
     <<-1, <<141, 19687, 1426, 3>>, -49>>, <<-1, <<29095, 29541, 24702, 229>>, -54>>, <<-1, <<12815, 14331, 24876, 10>>, -49>>
  >>

\* perturb = np.random.randn(n, nchan): the draws fill the array row by row
RawNoise(k, i, nchan) == Randn1[(k - 1) * nchan + i]
RawTable(n, nchan) == Tup([k \in 1..n |-> Tup([i \in 1..nchan |-> RawNoise(k, i, nchan)])])

\* np.linspace(start, stop, num): start + i * step for i = 0 .. num - 1 with
\* step = (stop - start) / (num - 1), the last entry set to stop; for
\* num = 1 the one entry is 0 * (stop - start) + start
Linspace(start, stop, num) ==
  IF num = 1 THEN <<FAdd(FMul(FFromInt(0), FSub(stop, start)), start)>>
  ELSE LET step == FDiv(FSub(stop, start), FFromInt(num - 1))
       IN  Tup([k \in 1..num |->
              IF k = num THEN stop ELSE FAdd(FMul(FFromInt(k - 1), step), start)])

\* np.linalg.norm(v): the square root of v . v
Norm(v) == FSqrt(FDot(v, v))

\* kernel = np.exp(-0.5*np.linspace(-3, 3, w)**2); kernel /= np.linalg.norm(kernel)
GaussKernel(w, fused) ==
  LET x == Linspace(FFromInt(-3), FFromInt(3), w)
      g == Tup([k \in 1..w |-> FExp(FMul(Dec(-5, 10), FMul(x[k], x[k])), fused)])
      norm == Norm(g)
  IN  Tup([k \in 1..w |-> FDiv(g[k], norm)])

\* one entry of a convolution: the products big[j] * small[mm] of the
\* entries that overlap when small is reversed and moved to end at
\* position top of big, summed from the lowest j up, from the product at
\* j on, acc being the sum so far
RECURSIVE ConvolveAt(_, _, _, _, _)
ConvolveAt(big, small, top, j, acc) ==
  IF j > Len(big) \/ j > top \/ Len(acc) < 3 THEN acc
  ELSE IF j < 1 \/ top - j + 1 > Len(small) THEN ConvolveAt(big, small, top, j + 1, acc)
  ELSE ConvolveAt(big, small, top, j + 1, FAdd(acc, FMul(big[j], small[top - j + 1])))

\* np.convolve(a, v, mode='same') for non-empty a and v: the middle
\* max(len) entries of the full convolution
ConvolveSame(a, v) ==
  LET big   == IF Len(v) > Len(a) THEN v ELSE a
      small == IF Len(v) > Len(a) THEN a ELSE v
      shift == (Len(small) - 1) \div 2
  IN  Tup([i \in 1..Len(big) |->
        ConvolveAt(big, small, i + shift, i + shift - Len(small) + 1, FFromInt(0))])

Column(M, i) == Tup([k \in 1..Len(M) |-> M[k][i]])

\* np.convolve(perturb[:, i], kernel, mode='same') for each channel i
SmoothColumns(raw, kern, n) == Tup([i \in 1..n |-> ConvolveSame(Column(raw, i), kern)])

\* for i in range(nu): perturb[:, i] = np.convolve(perturb[:, i], kernel, 'same')
\* perturb once its columns are replaced by cols
FromColumns(cols, rows) ==
  Tup([k \in 1..rows |-> Tup([i \in 1..Len(cols) |-> cols[i][k]])])

(***************************************************************************)
(* The notebook's state: the model and the MjData it simulates, the names  *)
(* its cells bind, the cell being run (pc) and the exception that stopped  *)
(* the run (err).  A name holds <<>>, 0 or FALSE until its cell binds it.  *)
(* ticks counts the mj_step calls since the last reset of data, and        *)
(* are_called records that solve_discrete_are was invoked.                 *)
(***************************************************************************)
VARIABLES model, data, pc, err,
          vertical_forces, idx, best_offset, qpos0, qfrc0,
          actuator_moment, ctrl0, DURATION, frames,
          R, Qbalance, balance_dofs, other_dofs, Qjoint, Qpos, Q,
          A, B, P, K, dq, dx,
          nsteps, perturb, CTRL_STD, kernel, step,
          ticks, are_called

trimVars  == <<vertical_forces, idx, best_offset, qpos0, qfrc0, actuator_moment, ctrl0>>
costVars  == <<R, Qbalance, balance_dofs, other_dofs, Qjoint, Qpos, Q>>
gainVars  == <<A, B, P, K, are_called>>
noiseVars == <<nsteps, perturb, CTRL_STD, kernel>>
loopVars  == <<DURATION, frames, dq, dx, step, ticks>>
vars == <<model, data, pc, err, trimVars, costVars, gainVars, noiseVars, loopVars>>

FRAMERATE == 60

\* mj_resetData and mj_resetDataKeyframe(model, data, 1)
ResetData(m) ==
  [qpos |-> DefaultQpos(m), qvel |-> Zeros(nv(m)), qacc |-> Zeros(nv(m)),
   time |-> FFromInt(0), ctrl |-> FZeros(nu(m)), qfrc_inverse |-> Zeros(nv(m))]
ResetDataKeyframe(m) == [ResetData(m) EXCEPT !.qpos = KeyQpos(m)]

\* a cell that forgets to set the pose
KeepQpos(d, q) == d

\* data.qpos = q and data.ctrl = u copy the values into data's arrays
SetQpos(d, q) == [d EXCEPT !.qpos = q]
SetCtrl(d, u) == [d EXCEPT !.ctrl = u]

\* mj_forward and mj_inverse write their results into data
Forward(m, d) == [d EXCEPT !.qacc = Gravity(m)]
MjInverse(m, d) == [d EXCEPT !.qfrc_inverse = InverseForce(m, d.qpos, d.qacc)]

\* a step that advances the time by two timesteps
MjStepTwice(m, d, k) ==
  [d EXCEPT !.qpos = IntegratePos(m, d.qpos, k),
            !.qacc = Tup([i \in 1..nv(m) |-> k[i] - d.qvel[i]]),
            !.qvel = k,
            !.time = FAdd(FAdd(d.time, m.timestep), m.timestep)]

\* mj_step: the body moves with one of the velocities the dynamics allow
\* (standing still is always possible), time advances by the timestep in
\* double precision
StepVelocities(m, d, start) ==
  {k \in Kicks(m) : k = Zeros(nv(m)) \/ InReach(m, start, IntegratePos(m, d.qpos, k))}
MjStep(m, d, k) ==
  [d EXCEPT !.qpos = IntegratePos(m, d.qpos, k),
            !.qacc = Tup([i \in 1..nv(m) |-> k[i] - d.qvel[i]]),
            !.qvel = k,
            !.time = FAdd(d.time, m.timestep)]

\* a loop that runs while data.time <= DURATION
LoopGuardLeq(d, D) == ~FLess(FFromInt(D), d.time)

\* while data.time < DURATION
LoopGuard(d, D) == FLess(d.time, FFromInt(D))
\* if len(frames) < data.time * FRAMERATE: frames.append(pixels)
Render(n, d) == IF FLess(FFromInt(n), FMul(d.time, FFromInt(FRAMERATE))) THEN n + 1 ELSE n

\* height_offsets = np.linspace(-0.001, 0.001, 2001), in steps of the grid
HeightOffsets == Tup([k \in 1..NumOffsets |-> k - 1 - HalfSpan])

\* a scan that moves to a later entry of equal magnitude
RECURSIVE ArgMinLastFrom(_, _, _)
ArgMinLastFrom(v, i, best) ==
  IF i > Len(v) THEN best
  ELSE ArgMinLastFrom(v, i + 1, IF Abs(v[i]) <= Abs(v[best]) THEN i ELSE best)
ArgMinLast(v) == ArgMinLastFrom(v, 2, 1)

\* np.argmin(np.abs(v)): one pass over v that moves to an entry only when
\* its magnitude is strictly smaller than the smallest seen so far
RECURSIVE ArgMinFrom(_, _, _)
ArgMinFrom(v, i, best) ==
  IF i > Len(v) THEN best
  ELSE ArgMinFrom(v, i + 1, IF Abs(v[i]) < Abs(v[best]) THEN i ELSE best)
ArgMin(v) == ArgMinFrom(v, 2, 1)

\* a scan whose iterations go on from the height the previous one left
AtOffsetAccumulated(m, offset) ==
  LET start == IF pc = "scan" /\ vertical_forces # <<>> THEN data.qpos[3] ELSE KeyQpos(m)[3]
      d0 == Forward(m, [ResetDataKeyframe(m) EXCEPT !.qpos[3] = start])
      d1 == [d0 EXCEPT !.qacc = Zeros(nv(m))]
  IN  [d1 EXCEPT !.qpos[3] = @ + offset]

\* the state in which a scan iteration and the setpoint cell call mj_inverse
AtOffset(m, offset) ==
  LET d0 == Forward(m, ResetDataKeyframe(m))
      d1 == [d0 EXCEPT !.qacc = Zeros(nv(m))]
  IN  [d1 EXCEPT !.qpos[3] = @ + offset]

\* int(np.ceil(D / timestep))
NSteps(D, m) == FCeil(FDiv(FFromInt(D), m.timestep))

\* The passive cell with random controls: <<time, number of frames>> after
\* at most k more iterations of its loop from s = <<t, n>> (the test of the
\* frame rate reads n, so that each frame is counted when it is rendered).
\* The k iterations are taken as two runs of about k / 2; once the guard
\* has failed nothing changes any more.  (The loop makes no more than
\* twice ceil(D / timestep) iterations.)
RECURSIVE PassiveFrames(_, _, _, _)
PassiveFrames(m, D, s, k) ==
  IF k = 0 \/ ~FLess(s[1], FFromInt(D)) THEN s
  ELSE IF k = 1
  THEN LET t2 == FAdd(s[1], m.timestep) IN <<t2, Render(s[2], [time |-> t2])>>
  ELSE PassiveFrames(m, D, PassiveFrames(m, D, s, k \div 2), k - k \div 2)

\* mj_resetDataKeyframe(model, data, 1); mj_forward; data.qacc = 0;
\* mj_inverse: the data that the cell before the scan leaves
InverseAtKeyframe(m) ==
  MjInverse(m, [Forward(m, ResetDataKeyframe(m)) EXCEPT !.qacc = Zeros(nv(m))])

\* the state in which the scan cell starts, for a model of the set S: the
\* cells above it have run
InitOf(S) ==
  /\ model \in S
  /\ data = InverseAtKeyframe(model)
  /\ pc = "scan" /\ err = ""
  /\ vertical_forces = <<>> /\ idx = 0 /\ best_offset = 0
  /\ qpos0 = <<>> /\ qfrc0 = <<>> /\ actuator_moment = <<>> /\ ctrl0 = <<>>
  /\ DURATION = 3
  /\ frames = PassiveFrames(model, 3, <<FFromInt(0), 0>>, 2 * NSteps(3, model))[2]
  /\ R = <<>> /\ Qbalance = <<>> /\ balance_dofs = <<>> /\ other_dofs = <<>>
  /\ Qjoint = <<>> /\ Qpos = <<>> /\ Q = <<>>
  /\ A = <<>> /\ B = <<>> /\ P = <<>> /\ K = <<>> /\ are_called = FALSE
  /\ dq = <<>> /\ dx = <<>>
  /\ nsteps = 0 /\ perturb = <<>> /\ CTRL_STD = <<>> /\ kernel = <<>> /\ step = 0
  /\ ticks = 0
Init == InitOf(Models)

\* one iteration of: for offset in height_offsets
ScanIter ==
  /\ pc = "scan" /\ Len(vertical_forces) < NumOffsets
  /\ data' = MjInverse(model, AtOffset(model, HeightOffsets[Len(vertical_forces) + 1]))
  /\ vertical_forces' = Append(vertical_forces, data'.qfrc_inverse[3])
  /\ ticks' = 0
  /\ UNCHANGED <<model, pc, err, idx, best_offset, qpos0, qfrc0, actuator_moment, ctrl0,
                 costVars, gainVars, noiseVars, DURATION, frames, dq, dx, step>>

\* idx = np.argmin(np.abs(vertical_forces)); best_offset = height_offsets[idx]
ScanFinish ==
  /\ pc = "scan" /\ Len(vertical_forces) = NumOffsets
  /\ idx' = ArgMin(vertical_forces)
  /\ best_offset' = HeightOffsets[idx']
  /\ pc' = "setpoint"
  /\ UNCHANGED <<model, data, err, vertical_forces, qpos0, qfrc0, actuator_moment, ctrl0,
                 costVars, gainVars, noiseVars, loopVars>>

\* the setpoint cell: qpos0 and qfrc0
SetpointCell ==
  /\ pc = "setpoint"
  /\ LET d == AtOffset(model, best_offset)
     IN  /\ qpos0' = d.qpos
         /\ data' = MjInverse(model, d)
         /\ qfrc0' = data'.qfrc_inverse
  /\ ticks' = 0
  /\ pc' = "ctrl_setpoint"
  /\ UNCHANGED <<model, err, vertical_forces, idx, best_offset, actuator_moment, ctrl0,
                 costVars, gainVars, noiseVars, DURATION, frames, dq, dx, step>>

\* no row and no column of M has two non-zero entries
OnePerLine(M) ==
  /\ \A i \in 1..NRows(M) : Cardinality({j \in 1..NCols(M) : M[i][j] # 0}) <= 1
  /\ \A j \in 1..NCols(M) : Cardinality({i \in 1..NRows(M) : M[i][j] # 0}) <= 1

\* The matrices whose singular value decomposition LAPACK computes without
\* a rounding error: no row and no column has two non-zero entries, and
\* every non-zero entry g has g * (1 / g) = 1 in doubles (LAPACK scales a
\* reflector by the rounded reciprocal 1 / g).  The singular values are
\* then the magnitudes of the entries and the singular vectors are signed
\* unit vectors.  The moment matrix of joint actuators with the gears 1 and
\* 2 is of this kind; one with a gear of 49 is not.
ExactSvd(M) ==
  /\ OnePerLine(M)
  /\ \A i \in 1..NRows(M) : \A j \in 1..NCols(M) :
        M[i][j] # 0 =>
          FMul(FFromInt(Abs(M[i][j])), FDiv(FFromInt(1), FFromInt(Abs(M[i][j])))) = FFromInt(1)

\* np.linalg.pinv(M) of an integer-valued matrix M, as the set of its
\* results: the sum over the singular values s above the cutoff (1e-15
\* times the largest one) of v u^T * (1 / s).  For a matrix of ExactSvd the
\* cutoff drops the zero singular values only and every product is exact
\* but for the rounded 1 / s: the result is the transpose of M with every
\* non-zero entry g replaced by the double nearest to 1 / g.  For any
\* other matrix the result carries the rounding errors of LAPACK's
\* iteration, which is not described here: the set is empty, and the cell
\* that calls pinv is described for the moment matrices of ExactSvd only.
Pinv(M) ==
  IF ExactSvd(M)
  THEN {Tup([j \in 1..NCols(M) |-> Tup([i \in 1..NRows(M) |->
          IF M[i][j] = 0 THEN FFromInt(0) ELSE FDiv(FFromInt(1), FFromInt(M[i][j]))])])}
  ELSE {}

\* ctrl0 = (np.atleast_2d(qfrc0) @ np.linalg.pinv(actuator_moment)).flatten()
CtrlSetpointCell ==
  /\ pc = "ctrl_setpoint"
  /\ actuator_moment' = Moment(model)
  /\ \E pinv \in Pinv(actuator_moment') : ctrl0' = FMatMul(<<ToFVec(qfrc0)>>, pinv)[1]
  /\ pc' = "forward_check"
  /\ UNCHANGED <<model, data, err, vertical_forces, idx, best_offset, qpos0, qfrc0,
                 costVars, gainVars, noiseVars, loopVars>>

\* data.ctrl = ctrl0; mj_forward
ForwardCheckCell ==
  /\ pc = "forward_check"
  /\ data' = Forward(model, SetCtrl(data, ctrl0))
  /\ pc' = "open_loop_init"
  /\ UNCHANGED <<model, err, trimVars, costVars, gainVars, noiseVars, loopVars>>

\* the passive cell up to its loop: DURATION = 3, reset, setpoints, frames = []
OpenLoopInit ==
  /\ pc = "open_loop_init"
  /\ DURATION' = 3
  /\ data' = SetCtrl(SetQpos(ResetData(model), qpos0), ctrl0)
  /\ frames' = 0 /\ ticks' = 0
  /\ pc' = "open_loop"
  /\ UNCHANGED <<model, err, trimVars, costVars, gainVars, noiseVars, dq, dx, step>>

\* one iteration of the passive loop: mj_step, render
OpenLoopTick ==
  /\ pc = "open_loop" /\ LoopGuard(data, DURATION)
  /\ \E k \in StepVelocities(model, data, qpos0) : data' = MjStep(model, data, k)
  /\ frames' = Render(frames, data')
  /\ ticks' = ticks + 1
  /\ UNCHANGED <<model, pc, err, trimVars, costVars, gainVars, noiseVars, DURATION, dq, dx, step>>

OpenLoopExit ==
  /\ pc = "open_loop" /\ ~LoopGuard(data, DURATION)
  /\ pc' = "R"
  /\ UNCHANGED <<model, data, err, trimVars, costVars, gainVars, noiseVars, loopVars>>

\* R = np.eye(nu)
RCell ==
  /\ pc = "R"
  /\ R' = Eye(nu(model))
  /\ pc' = "jacobian"
  /\ UNCHANGED <<model, data, err, trimVars, Qbalance, balance_dofs, other_dofs, Qjoint,
                 Qpos, Q, gainVars, noiseVars, loopVars>>

\* Qbalance = jac_diff.T @ jac_diff at the setpoint
JacobianCell ==
  /\ pc = "jacobian"
  /\ data' = Forward(model, SetQpos(ResetData(model), qpos0))
  /\ ticks' = 0
  /\ LET jac_diff == IMatSub(JacCom(model), JacFoot(model))
     IN  Qbalance' = IMatMul(Transpose(jac_diff), jac_diff)
  /\ pc' = "groups"
  /\ UNCHANGED <<model, err, trimVars, R, balance_dofs, other_dofs, Qjoint, Qpos, Q,
                 gainVars, noiseVars, DURATION, frames, dq, dx, step>>

\* 'word' in name
Has(name, word) ==
  \E i \in 0..(Len(name) - Len(word)) : SubSeq(name, i + 1, i + Len(word)) = word

IsAbdomen(name) == Has(name, <<"a", "b", "d", "o", "m", "e", "n">>) /\ ~Has(name, <<"z">>)
IsLeftLeg(name) ==
  /\ Has(name, <<"l", "e", "f", "t">>)
  /\ \/ Has(name, <<"h", "i", "p">>)
     \/ Has(name, <<"k", "n", "e", "e">>)
     \/ Has(name, <<"a", "n", "k", "l", "e">>)
  /\ ~Has(name, <<"z">>)

\* [model.joint(name).dofadr[0] for name in joint_names if name in keep],
\* from joint j on
RECURSIVE DofsWhere(_, _, _)
DofsWhere(m, keep, j) ==
  IF j > njnt(m) THEN <<>>
  ELSE (IF m.joints[j] \in keep THEN <<dofadr(m, j)>> ELSE <<>>) \o DofsWhere(m, keep, j + 1)
JointNames(m) == {m.joints[j] : j \in 1..njnt(m)}

root_dofs == Tup([i \in 1..6 |-> i])
body_dofs(m) == 7..nv(m)
Range(s) == {s[i] : i \in 1..Len(s)}

\* the elements of a set of integers in increasing order
RECURSIVE SortedSeq(_)
SortedSeq(S) ==
  IF S = {} THEN <<>>
  ELSE LET lo == CHOOSE a \in S : \A b \in S : a <= b
       IN  <<lo>> \o SortedSeq(S \ {lo})

\* np.setdiff1d(a, b)
SetDiff1d(a, b) == SortedSeq(a \ b)

GroupsCell ==
  /\ pc = "groups"
  /\ LET abdomen_dofs == DofsWhere(model, {n \in JointNames(model) : IsAbdomen(n)}, 1)
         left_leg_dofs == DofsWhere(model, {n \in JointNames(model) : IsLeftLeg(n)}, 1)
     IN  balance_dofs' = abdomen_dofs \o left_leg_dofs
  /\ other_dofs' = SetDiff1d(body_dofs(model), Range(balance_dofs'))
  /\ pc' = "cost"
  /\ UNCHANGED <<model, data, err, trimVars, R, Qbalance, Qjoint, Qpos, Q,
                 gainVars, noiseVars, loopVars>>

BALANCE_COST == 1000
BALANCE_JOINT_COST == 3
OTHER_JOINT_COST == Dec(3, 10)

\* M[dofs, dofs] = vals: entry (dofs[k], dofs[k]) is assigned vals[k], for
\* k in order
RECURSIVE SetAt(_, _, _, _)
SetAt(M, dofs, vals, k) ==
  IF k > Len(dofs) THEN M
  ELSE SetAt([M EXCEPT ![dofs[k]][dofs[k]] = vals[k]], dofs, vals, k + 1)

\* for d in dofs: M[d, d] *= c
RECURSIVE ScaleEach(_, _, _, _)
ScaleEach(M, dofs, c, k) ==
  IF k > Len(dofs) THEN M
  ELSE ScaleEach([M EXCEPT ![dofs[k]][dofs[k]] = FMul(@, c)], dofs, c, k + 1)
ScaleDiagEach(M, dofs, c) == ScaleEach(M, dofs, c, 1)

\* M[dofs, dofs] *= c: the entries (dofs[k], dofs[k]) are read, multiplied
\* by c, and the products assigned back
ScaleDiag(M, dofs, c) ==
  SetAt(M, dofs, Tup([k \in 1..Len(dofs) |-> FMul(M[dofs[k]][dofs[k]], c)]), 1)

\* a block matrix that repeats M in the velocity block
BlockBoth(M, n) ==
  Tup([i \in 1..(2 * n) |-> Tup([j \in 1..(2 * n) |->
     IF i <= n /\ j <= n THEN M[i][j]
     ELSE IF i > n /\ j > n THEN M[i - n][j - n] ELSE FFromInt(0)])])

\* np.block([[M, np.zeros((nv, nv))], [np.zeros((nv, 2*nv))]])
Block(M, n) ==
  Tup([i \in 1..(2 * n) |-> Tup([j \in 1..(2 * n) |->
     IF i <= n /\ j <= n THEN M[i][j] ELSE FFromInt(0)])])

CostCell ==
  /\ pc = "cost"
  /\ Qjoint' = ScaleDiag(ScaleDiag(ScaleDiag(ToFMat(Eye(nv(model))), root_dofs, FFromInt(0)),
                                   balance_dofs, FFromInt(BALANCE_JOINT_COST)),
                         other_dofs, OTHER_JOINT_COST)
  /\ Qpos' = Tup([i \in 1..nv(model) |-> Tup([j \in 1..nv(model) |->
                FAdd(FMul(FFromInt(BALANCE_COST), FFromInt(Qbalance[i][j])), Qjoint'[i][j])])])
  /\ Q' = Block(Qpos', nv(model))
  /\ pc' = "linearize"
  /\ UNCHANGED <<model, data, err, trimVars, R, Qbalance, balance_dofs, other_dofs,
                 gainVars, noiseVars, loopVars>>

\* a linearization cell that leaves the controls of the reset data
TrimStateNoCtrl(m, u0, q0) == SetQpos(ResetData(m), q0)

\* mj_resetData; data.ctrl = ctrl0; data.qpos = qpos0
TrimState(m, u0, q0) == SetQpos(SetCtrl(ResetData(m), u0), q0)

\* the finite-difference step and the kind of differencing requested
epsilon == Dec(1, 10^6)
flg_centered == TRUE

\* the linearization cell: reset, setpoints, mjd_transitionFD fills A and B
LinearizeCell ==
  /\ pc = "linearize"
  /\ data' = TrimState(model, ctrl0, qpos0)
  /\ ticks' = 0
  /\ \E lin \in Linearizations(model) : A' = lin.A /\ B' = lin.B
  /\ pc' = "riccati"
  /\ UNCHANGED <<model, err, trimVars, costVars, P, K, are_called, noiseVars,
                 DURATION, frames, dq, dx, step>>

\* K = np.linalg.inv(R + B.T @ P @ B) @ B.T @ P @ A, inv being the inverse
GainDenominator(r, b, p) == IMatAdd(r, IMatMul(IMatMul(Transpose(b), p), b))
Gain(inv, a, b, p) ==
  FMatMul(FMatMul(FMatMul(inv, ToFMat(Transpose(b))), ToFMat(p)), ToFMat(a))

\* the Riccati cell.  solve_discrete_are rejects non-finite arguments with
\* ValueError, may fail with LinAlgError, or returns some P; np.linalg.inv
\* fails with LinAlgError when the factorization meets a zero pivot.
RiccatiCell ==
  /\ pc = "riccati"
  /\ are_called' = TRUE
  /\ \E reply \in RiccatiReplies(model) :
       IF ~(IsFinite(A) /\ IsFinite(B))
       THEN pc' = "error" /\ err' = "ValueError" /\ UNCHANGED <<P, K>>
       ELSE IF reply = "LinAlgError"
       THEN pc' = "error" /\ err' = "LinAlgError" /\ UNCHANGED <<P, K>>
       ELSE /\ P' = IF reply = "good" THEN GoodP(model) ELSE BadP(model)
            /\ \E recip, recipSolve \in BOOLEAN :
                 \E inv \in {Inverse(GainDenominator(R, B, P'), recip, recipSolve)} :
                   IF inv = <<>>
                   THEN pc' = "error" /\ err' = "LinAlgError" /\ UNCHANGED K
                   ELSE pc' = "lqr_init" /\ K' = Gain(inv, A, B, P') /\ UNCHANGED err
  /\ UNCHANGED <<model, data, trimVars, costVars, A, B, noiseVars, loopVars>>

\* a closed-loop cell that runs right after the passive one, before the
\* cost matrices, the linearization and the gain exist
LqrInitEarly ==
  /\ pc = "R"
  /\ DURATION' = 5
  /\ data' = SetQpos(ResetData(model), qpos0)
  /\ dq' = Zeros(nv(model))
  /\ frames' = 0 /\ ticks' = 0
  /\ pc' = "lqr_loop"
  /\ UNCHANGED <<model, err, trimVars, costVars, gainVars, noiseVars, dx, step>>

LqrInit ==
  /\ pc = "lqr_init"
  /\ DURATION' = 5
  /\ data' = SetQpos(ResetData(model), qpos0)
  /\ dq' = Zeros(nv(model))
  /\ frames' = 0 /\ ticks' = 0
  /\ pc' = "lqr_loop"
  /\ UNCHANGED <<model, err, trimVars, costVars, gainVars, noiseVars, dx, step>>

\* np.hstack((dq, data.qvel)).T
Hstack(u, v) == u \o v

\* dx as a tick computes it from the data: mj_differentiatePos into dq,
\* stacked on data.qvel
StateDiff(m, q0, d) == Hstack(DifferentiatePos(m, q0, d.qpos), d.qvel)

\* the feedback with the wrong sign
LqrControlPlus(u0, gain, d) == FVecAdd(u0, FMatVec(gain, ToFVec(d)))

\* ctrl0 - K @ dx
LqrControl(u0, gain, d) == FVecSub(u0, FMatVec(gain, ToFVec(d)))

\* a tick whose data.ctrl is the array ctrl0 itself
LoopFrameAliased ==
  /\ ctrl0' = data'.ctrl
  /\ UNCHANGED <<model, vertical_forces, idx, best_offset, qpos0, qfrc0, actuator_moment,
                 costVars, gainVars, noiseVars, DURATION>>

\* what a tick of either closed loop leaves alone
LoopFrame == UNCHANGED <<model, trimVars, costVars, gainVars, noiseVars, DURATION>>

\* one iteration of the noise-free closed loop
LqrTick ==
  /\ pc = "lqr_loop" /\ LoopGuard(data, DURATION)
  /\ dq' = DifferentiatePos(model, qpos0, data.qpos)
  /\ dx' = StateDiff(model, qpos0, data)
  /\ data' \in LET d == SetCtrl(data, LqrControl(ctrl0, K, StateDiff(model, qpos0, data)))
              IN  {MjStep(model, d, k) : k \in StepVelocities(model, data, qpos0)}
  /\ frames' = Render(frames, data')
  /\ ticks' = ticks + 1
  /\ LoopFrame
  /\ UNCHANGED <<pc, err, step>>

LqrExit ==
  /\ pc = "lqr_loop" /\ ~LoopGuard(data, DURATION)
  /\ pc' = "noise"
  /\ UNCHANGED <<model, data, err, trimVars, costVars, gainVars, noiseVars, loopVars>>

CTRL_RATE == Dec(8, 10)
BALANCE_STD == Dec(1, 100)
OTHER_STD == Dec(8, 100)

\* int(n * CTRL_RATE / D)
Width(n, D) == FTrunc(FDiv(FMul(FFromInt(n), CTRL_RATE), FFromInt(D)))

\* CTRL_STD[i] = BALANCE_STD if dof in balance_dofs else OTHER_STD
CtrlStd(m, balance) ==
  Tup([i \in 1..nu(m) |->
     IF dofadr(m, trnid(m, i)) \in Range(balance) THEN BALANCE_STD ELSE OTHER_STD])

\* the disturbed cell up to its loop.  np.convolve rejects an empty
\* kernel, and the column assignment a result of another length than the
\* column's, with ValueError.
NoiseInit ==
  /\ pc = "noise"
  /\ DURATION' = 12
  /\ nsteps' = NSteps(12, model)
  /\ CTRL_STD' = CtrlStd(model, balance_dofs)
  /\ \E fused \in BOOLEAN : kernel' = GaussKernel(Width(NSteps(12, model), 12), fused)
  /\ \E cols \in {SmoothColumns(RawTable(NSteps(12, model), nu(model)), kernel', nu(model))} :
       IF \/ Len(kernel') = 0
          \/ \E i \in 1..nu(model) : Len(cols[i]) # nsteps'
       THEN /\ perturb' = RawTable(NSteps(12, model), nu(model))
            /\ pc' = "error" /\ err' = "ValueError"
            /\ UNCHANGED <<data, frames, step, ticks>>
       ELSE /\ perturb' = FromColumns(cols, nsteps')
            /\ data' = SetQpos(ResetData(model), qpos0)
            /\ frames' = 0 /\ step' = 0 /\ ticks' = 0
            /\ pc' = "final_loop"
            /\ UNCHANGED err
  /\ UNCHANGED <<model, trimVars, costVars, gainVars, dq, dx>>

\* one iteration of the disturbed closed loop; perturb[step] raises
\* IndexError when step is not an index of perturb
FinalTick ==
  /\ pc = "final_loop" /\ LoopGuard(data, DURATION)
  /\ dq' = DifferentiatePos(model, qpos0, data.qpos)
  /\ dx' = StateDiff(model, qpos0, data)
  /\ IF step >= Len(perturb)
     THEN /\ data' = SetCtrl(data, LqrControl(ctrl0, K, StateDiff(model, qpos0, data)))
          /\ pc' = "error" /\ err' = "IndexError"
          /\ UNCHANGED <<step, frames, ticks>>
     ELSE /\ data' \in
               LET d == SetCtrl(data, LqrControl(ctrl0, K, StateDiff(model, qpos0, data)))
                   noisy == SetCtrl(d, FVecAdd(d.ctrl, FVecMul(CTRL_STD, perturb[step + 1])))
               IN  {MjStep(model, noisy, k) : k \in StepVelocities(model, data, qpos0)}
          /\ step' = step + 1
          /\ frames' = Render(frames, data')
          /\ ticks' = ticks + 1
          /\ UNCHANGED <<pc, err>>
  /\ LoopFrame

FinalExit ==
  /\ pc = "final_loop" /\ ~LoopGuard(data, DURATION)
  /\ pc' = "done"
  /\ UNCHANGED <<model, data, err, trimVars, costVars, gainVars, noiseVars, loopVars>>

Next ==
  \/ ScanIter \/ ScanFinish \/ SetpointCell \/ CtrlSetpointCell \/ ForwardCheckCell
  \/ OpenLoopInit \/ OpenLoopTick \/ OpenLoopExit
  \/ RCell \/ JacobianCell \/ GroupsCell \/ CostCell \/ LinearizeCell \/ RiccatiCell
  \/ LqrInit \/ LqrTick \/ LqrExit
  \/ NoiseInit \/ FinalTick \/ FinalExit
Spec == Init /\ [][Next]_vars

\* a step of a closed loop, seen on pc and ticks: an iteration that calls
\* mj_step, or the end of the loop (its guard fails, or an exception)
LoopStep ==
  /\ pc \in {"lqr_loop", "final_loop"}
  /\ \/ ticks' = ticks + 1 /\ pc' = pc
     \/ ticks' = ticks /\ pc' \in {"noise", "done", "error"}

\* Models on which the closed loops' tick counts fall on either side of
\* ceil(DURATION / timestep): the timestep is 0.1, 0.5 (its multiples are
\* doubles), 0.7142857142857142 (the double next below 5 / 7) and
\* 0.857142857142857 (the double next below 12 / 14).
LoopModels ==
  { MjModel(Dec(1, 10), CurveInside, TRUE),
    MjModel(Dec(5, 10), CurveInside, TRUE),
    MjModel(FBelow(FDiv(FFromInt(5), FFromInt(7))), CurveInside, TRUE),
    MjModel(FBelow(FDiv(FFromInt(12), FFromInt(14))), CurveInside, TRUE) }

LoopInit == InitOf(LoopModels)

\* the interpreter keeps running a loop it has entered: the next iteration,
\* or what follows the loop, is eventually executed
LoopSpec == LoopInit /\ [][Next]_vars /\ WF_<<pc, ticks>>(LoopStep)

(***************************************************************************)
(* Properties.                                                             *)
(***************************************************************************)
InLoop == pc \in {"lqr_loop", "final_loop"}
\* a step of the model in which a closed loop calls mj_step
IsTick == InLoop /\ ticks' = ticks + 1

\* C1: on every tick of either closed loop, dx is the manifold difference
\* of (qpos0, current position) followed by the current velocity, and the
\* command the oracle steps with is ctrl0 - K dx, plus the disturbance
\* sample of the step in the disturbed loop, each operation rounded to a
\* double.
C1_CommandIsFeedback ==
  [][IsTick =>
       /\ dx' = DifferentiatePos(model, qpos0, data.qpos) \o data.qvel
       /\ LET u == FVecSub(ctrl0, FMatVec(K, ToFVec(DifferentiatePos(model, qpos0, data.qpos)
                                                      \o data.qvel)))
          IN  data'.ctrl = IF pc = "lqr_loop" THEN u
                           ELSE FVecAdd(u, FVecMul(CTRL_STD, perturb[step + 1]))]_vars

C1_Witness ==
  /\ pc = "final_loop" /\ ticks > 1
  /\ FMatVec(K, ToFVec(dx)) # FZeros(nu(model))
  /\ data.ctrl # ctrl0

\* every multiple of the timestep up to n steps is a double
StepsExact(m, n) ==
  \A k \in 1..n :
     LET x == BigMulSmall(m.timestep[2], k)
     IN  BigBitLen(BigShr(x, BigTrailingZeros(x))) <= MantBits

\* the time k steps after time t: t + h, rounded, k times (the k steps are
\* taken as two runs of about k / 2 steps)
RECURSIVE TimeAfter(_, _, _)
TimeAfter(h, t, k) ==
  IF k = 0 \/ Len(t) < 3 THEN t
  ELSE IF k = 1 THEN FAdd(t, h)
  ELSE TimeAfter(h, TimeAfter(h, t, k \div 2), k - k \div 2)

LoopLeft == pc \in {"noise", "done"}

TickCounts ==
  { <<Dec(1, 10), 5, 51>>, <<Dec(5, 10), 5, 10>>, <<Dec(5, 10), 12, 24>>,
    <<FBelow(FDiv(FFromInt(5), FFromInt(7))), 5, 7>>,
    <<FBelow(FDiv(FFromInt(5), FFromInt(7))), 12, 17>>,
    <<FBelow(FDiv(FFromInt(12), FFromInt(14))), 5, 6>>,
    <<FBelow(FDiv(FFromInt(12), FFromInt(14))), 12, 14>> }

C3_StepIndexesTrace ==
  /\ pc = "final_loop" => step = ticks /\ Len(perturb) = nsteps
  /\ pc = "final_loop" /\ LoopGuard(data, DURATION) => step \in 0..(nsteps - 1)
  /\ err # "IndexError"

\* C4: no step of a closed loop changes the setpoints, the gain, the
\* matrices it came from, or the disturbance trace; only data, dq, dx,
\* step, frames (and the loop's position) are written.
C4_LoopWritesOnlyItsOwn ==
  [][InLoop =>
       /\ UNCHANGED <<qpos0, ctrl0, K, P, A, B, Q, R, perturb>>
       /\ UNCHANGED <<model, trimVars, costVars, gainVars, noiseVars, DURATION>>]_vars

C4_Witness ==
  /\ pc = "final_loop" /\ step >= 2 /\ frames > 0
  /\ data.qpos # qpos0 /\ data.ctrl # ctrl0

\* C5: the manifold difference of a position with itself is zero; a tick of
\* the noise-free loop that starts at qpos0 with zero velocity has dx = 0
\* and commands exactly ctrl0; the first tick of the loop is such a tick.
C5_ZeroDeviationGivesSetpoint ==
  /\ [](DifferentiatePos(model, data.qpos, data.qpos) = Zeros(nv(model)))
  /\ [](pc = "lqr_loop" /\ ticks = 0 => data.qpos = qpos0 /\ data.qvel = Zeros(nv(model)))
  /\ [][IsTick /\ pc = "lqr_loop" /\ data.qpos = qpos0 /\ data.qvel = Zeros(nv(model)) =>
          dx' = Zeros(2 * nv(model)) /\ data'.ctrl = ctrl0]_vars

C5_Witness ==
  /\ pc = "lqr_loop" /\ ticks = 1
  /\ dx = Zeros(2 * nv(model)) /\ data.ctrl = ctrl0

\* two positions that describe the same pose: equal but for the sign of
\* the root quaternion
SamePose(p, q) ==
  /\ Len(p) = Len(q)
  /\ \A i \in (1..Len(p)) \ (4..7) : p[i] = q[i]
  /\ \/ \A i \in 4..7 : p[i] = q[i]
     \/ \A i \in 4..7 : p[i] = -q[i]

\* C6: on every tick dq is the tangent-space deviation from qpos0 (moving
\* qpos0 along dq gives the current pose), it has nv components although
\* positions have nq > nv, dx has 2 nv, and K is nu x 2 nv.
C6_TangentSpaceDeviation ==
  /\ [](InLoop /\ ticks > 0 =>
          /\ Len(dq) = nv(model) /\ Len(dx) = 2 * nv(model)
          /\ NRows(K) = nu(model) /\ NCols(K) = Len(dx)
          /\ Len(data.qpos) = nq(model) /\ nq(model) >= nv(model))
  /\ [][IsTick => SamePose(IntegratePos(model, qpos0, dq'), data.qpos)]_vars

C6_Witness ==
  /\ pc = "final_loop" /\ ticks > 0
  /\ dq[4] # 0 /\ dq[7] # 0
  /\ Len(dq) = nv(model) /\ Len(data.qpos) = nv(model) + 1

IsSymmetric(M) == M = Transpose(M)
NonNegDiagonal(M) == \A i \in 1..NRows(M) : M[i][i] >= 0

\* C8 as stated: a P that is not positive semi-definite (here: not
\* symmetric, or with a negative diagonal entry) yields no gain and no
\* closed loop runs with it.
C8_InvalidPRejected ==
  (P # <<>> /\ ~(IsSymmetric(P) /\ NonNegDiagonal(P))) => K = <<>> /\ ~InLoop

\* C9 as stated: solve_discrete_are is not called with a non-finite A or B,
\* and a run with such a linearization ends with NonFiniteLinearization.
C9_NonFiniteStopsBeforeRiccati ==
  (A # <<>> /\ ~(IsFinite(A) /\ IsFinite(B))) =>
     /\ ~are_called
     /\ pc = "error" => err = "NonFiniteLinearization"

\* C10 as stated: when the scan's minimizer is the first or the last
\* offset, no trim point is produced.
C10_BoundaryMinimizerRejected ==
  idx \in {1, NumOffsets} => qpos0 = <<>> /\ ctrl0 = <<>>
\* C11: once the scan has finished, the chosen offset is the entry idx of
\* the scanned grid, every scanned force is the vertical component (the
\* scanned coordinate's own degree of freedom) of the inverse-dynamics force
\* at its offset, no scanned offset has a force of smaller magnitude than
\* the chosen one, and every offset scanned before it has a strictly
\* larger one.
C11_ChosenOffsetMinimizes ==
  idx # 0 =>
    /\ idx \in 1..NumOffsets /\ best_offset = HeightOffsets[idx]
    /\ Len(vertical_forces) = NumOffsets
    /\ \A k \in 1..NumOffsets :
         /\ vertical_forces[k] =
              InverseForce(model, AtOffset(model, HeightOffsets[k]).qpos, Zeros(nv(model)))[3]
         /\ Abs(vertical_forces[idx]) <= Abs(vertical_forces[k])
         /\ k < idx => Abs(vertical_forces[k]) > Abs(vertical_forces[idx])

C11_Witness ==
  /\ idx \in 2..(NumOffsets - 1)
  /\ \E k \in (idx + 1)..NumOffsets :
       /\ Abs(vertical_forces[k]) = Abs(vertical_forces[idx])
       /\ vertical_forces[k] # vertical_forces[idx]

\* C12: Qjoint is an nv x nv matrix whose entries off the diagonal are all
\* zero and whose entries on rows and columns of the root joint's degrees of
\* freedom (the group with weight zero) are all zero.
C12_QjointDiagonalRootZero ==
  Qjoint # <<>> =>
    /\ NRows(Qjoint) = nv(model) /\ NCols(Qjoint) = nv(model)
    /\ \A i, j \in 1..nv(model) : i # j => Qjoint[i][j] = FFromInt(0)
    /\ \A i, j \in Range(root_dofs) : Qjoint[i][j] = FFromInt(0)

C12_Witness ==
  /\ Qjoint # <<>>
  /\ \E i, j \in 1..nv(model) :
       Qjoint[i][i] = FFromInt(BALANCE_JOINT_COST) /\ Qjoint[j][j] = OTHER_JOINT_COST

\* C20: the balance and the other degrees of freedom are disjoint, together
\* they are exactly the degrees of freedom after the root's, and each
\* diagonal entry of Qjoint is the one weight of its group: 0 for the
\* root's, BALANCE_JOINT_COST for balance ones (also for one that
\* balance_dofs lists twice), OTHER_JOINT_COST for the others.
C20_OneWeightPerDof ==
  Qjoint # <<>> =>
    /\ Range(balance_dofs) \cap Range(other_dofs) = {}
    /\ (Range(balance_dofs) \cap body_dofs(model)) \cup Range(other_dofs) = body_dofs(model)
    /\ Range(root_dofs) \cup body_dofs(model) = 1..nv(model)
    /\ \A i \in 1..nv(model) :
         Qjoint[i][i] = IF i \in Range(root_dofs) THEN FFromInt(0)
                        ELSE IF i \in Range(balance_dofs) THEN FFromInt(BALANCE_JOINT_COST)
                        ELSE OTHER_JOINT_COST

C20_Witness ==
  /\ Qjoint # <<>> /\ other_dofs # <<>>
  /\ \E k, l \in 1..Len(balance_dofs) : k < l /\ balance_dofs[k] = balance_dofs[l]

\* C13: Q is a symmetric 2 nv x 2 nv matrix; its entries in the first nv
\* rows and columns are those of Qpos, which is BALANCE_COST times
\* (jac_com - jac_foot)^T (jac_com - jac_foot) plus Qjoint, and all its
\* other entries are zero.
C13_QBlockDiagonal ==
  Q # <<>> =>
    LET n == nv(model)
        jac_diff == IMatSub(JacCom(model), JacFoot(model))
        JtJ == IMatMul(Transpose(jac_diff), jac_diff)
    IN  /\ NRows(Q) = 2 * n /\ NCols(Q) = 2 * n
        /\ \A i \in 1..(2 * n) : Len(Q[i]) = 2 * n
        /\ IsSymmetric(Q)
        /\ \A i, j \in 1..n :
             /\ Q[i][j] = Qpos[i][j]
             /\ Qpos[i][j] = FAdd(FFromInt(BALANCE_COST * JtJ[i][j]), Qjoint[i][j])
        /\ \A i, j \in 1..(2 * n) : (i > n \/ j > n) => Q[i][j] = FFromInt(0)

C13_Witness ==
  /\ Q # <<>>
  /\ \E i, j \in 1..nv(model) : i # j /\ Q[i][j] # FFromInt(0)
  /\ \E i \in 1..nv(model) : Qjoint[i][i] # FFromInt(0) /\ Q[i][i] # Qjoint[i][i]

\* C14 as stated: once the disturbed cell has generated the trace, nsteps
\* is ceil(DURATION / timestep), every channel of the raw noise has nsteps
\* entries, the smoothing has completed whatever the width of the kernel
\* (np.convolve has raised no ValueError), and the trace holds the smoothed
\* channels, each of nsteps entries.
C14_TraceKeepsLength ==
  nsteps # 0 =>
    /\ nsteps = NSteps(DURATION, model)
    /\ \A i \in 1..nu(model) : Len(Column(RawTable(nsteps, nu(model)), i)) = nsteps
    /\ err # "ValueError"
    /\ perturb = FromColumns(SmoothColumns(RawTable(nsteps, nu(model)), kernel, nu(model)),
                             nsteps)
    /\ \A i \in 1..nu(model) : Len(Column(perturb, i)) = nsteps

\* C15 as stated: with a kernel of width zero or one, the cell produces a
\* trace, equal to the raw noise entry by entry.
C15_NoOpKernelKeepsRawNoise ==
  (nsteps # 0 /\ Len(kernel) <= 1) =>
    /\ err = ""
    /\ perturb = RawTable(nsteps, nu(model))

Bound(x) == x # <<>>
Terminated == pc \in {"done", "error"}

\* C16: a closed loop runs only with the setpoints, the cost matrices, the
\* linearization, the Riccati solution and the gain all produced, and these
\* are produced in the order setpoints, cost matrices, linearization,
\* Riccati solution and gain; a loop starts from reset data at qpos0; the
\* oracle steps only inside a loop and the feedback is computed only inside
\* a closed loop; after the noise-free loop the disturbed one, if the cell
\* gets that far, starts from a reset again; and once the run is over (done, or stopped by an
\* exception) nothing happens any more.
C16_SynthesisBeforeLoopThenEnd ==
  /\ [](InLoop => /\ Bound(qpos0) /\ Bound(ctrl0) /\ Bound(K)
                   /\ Bound(P) /\ Bound(A) /\ Bound(B) /\ Bound(Q) /\ Bound(R))
  /\ [](Bound(K) => Bound(P))
  /\ [](Bound(P) => Bound(A) /\ Bound(B))
  /\ [](Bound(A) => Bound(Q) /\ Bound(R))
  /\ [](Bound(Q) => Bound(ctrl0))
  /\ [](Bound(ctrl0) => Bound(qpos0) /\ Bound(qfrc0))
  /\ [](InLoop /\ ticks = 0 => data = SetQpos(ResetData(model), qpos0))
  /\ [][ticks' = ticks + 1 => pc \in {"open_loop", "lqr_loop", "final_loop"} /\ pc' = pc]_vars
  /\ [][dx' # dx \/ dq' # dq => InLoop \/ pc = "lqr_init"]_vars
  /\ [][pc = "noise" => /\ pc' \in {"final_loop", "error"}
                         /\ pc' = "final_loop" => ticks' = 0 /\ step' = 0]_vars
  /\ [][~Terminated]_vars

C16_Witness ==
  /\ pc = "done" /\ step > 1 /\ ticks = step
  /\ Bound(K) /\ Bound(dx)

\* the keyframe position moved by offset along the vertical coordinate
Lifted(m, offset) == [KeyQpos(m) EXCEPT ![3] = @ + offset]

\* C17: the k-th scan iteration calls inverse dynamics at the keyframe
\* position moved by the k-th offset alone, at rest and with zero
\* acceleration; qpos0 is the keyframe position moved by best_offset, equal
\* to it in every other coordinate; and the vertical component of qfrc0 is
\* the force the scan recorded for best_offset.
C17_ScanRestartsFromKeyframe ==
  /\ [][pc = "scan" /\ Len(vertical_forces') = Len(vertical_forces) + 1 =>
          /\ data'.qpos = Lifted(model, HeightOffsets[Len(vertical_forces')])
          /\ data'.qvel = Zeros(nv(model)) /\ data'.qacc = Zeros(nv(model))
          /\ vertical_forces'[Len(vertical_forces')] = data'.qfrc_inverse[3]]_vars
  /\ [](qpos0 # <<>> =>
          /\ qpos0 = Lifted(model, best_offset)
          /\ \A i \in 1..nq(model) : i # 3 => qpos0[i] = KeyQpos(model)[i])
  /\ [](qfrc0 # <<>> =>
          /\ Len(qfrc0) = nv(model)
          /\ qfrc0[3] = vertical_forces[idx])

C17_Witness ==
  /\ qfrc0 # <<>> /\ best_offset # 0
  /\ qpos0 # KeyQpos(model) /\ qpos0[3] = KeyQpos(model)[3] + HeightOffsets[idx]
  /\ \E k \in 1..(idx - 1) : HeightOffsets[k] # 0

\* C18 as stated: at the start of every tick of the disturbed loop the step
\* counter is the number of oracle steps since the reset and the time is
\* the step counter times the timestep (as a double).
C18_TimeIsStepTimesTimestep ==
  pc = "final_loop" =>
    /\ step = ticks
    /\ data.time = FMul(model.timestep, FFromInt(step))

\* C18, amended: the disturbed loop starts from reset data at time 0 with
\* step = 0; every completed tick adds one to step and to the number of
\* oracle steps and replaces the time by the double sum of time and
\* timestep, so step always equals the number of oracle steps; the time is
\* step times the timestep when the multiples of the timestep up to there
\* are doubles.
C18_StepCountsOracleSteps ==
  /\ [](pc = "final_loop" =>
          /\ step = ticks
          /\ ticks = 0 => data = SetQpos(ResetData(model), qpos0) /\ data.time = FFromInt(0)
          /\ StepsExact(model, step) => data.time = FMul(model.timestep, FFromInt(step)))
  /\ [][pc = "final_loop" /\ pc' = "final_loop" /\ data' # data =>
          /\ step' = step + 1 /\ ticks' = ticks + 1
          /\ data'.time = FAdd(data.time, model.timestep)]_vars

C18_Witness ==
  /\ pc = "final_loop" /\ step > 2 /\ step = ticks
  /\ data.time # FMul(model.timestep, FFromInt(step))

\* C19: the linearization is requested with the data at the trim point
\* (position qpos0, zero velocity, time 0, controls ctrl0), whatever the
\* data held before; the request is for centered differences with a
\* positive epsilon; and A is 2 nv x 2 nv, B is 2 nv x nu.
C19_LinearizedAtTrimPoint ==
  /\ [][pc = "linearize" =>
          /\ data'.qpos = qpos0 /\ data'.qvel = Zeros(nv(model))
          /\ data'.time = FFromInt(0) /\ data'.ctrl = ctrl0
          /\ A' # <<>> /\ B' # <<>>]_vars
  /\ [](A # <<>> =>
          /\ NRows(A) = 2 * nv(model) /\ \A i \in 1..NRows(A) : Len(A[i]) = 2 * nv(model)
          /\ NRows(B) = 2 * nv(model) /\ \A i \in 1..NRows(B) : Len(B[i]) = nu(model))
  /\ [](flg_centered /\ FLess(FFromInt(0), epsilon))

C19_Witness ==
  /\ pc = "riccati" /\ A # <<>> /\ frames > 0
  /\ data.qpos = qpos0 /\ data.qpos # DefaultQpos(model)
  /\ data.ctrl = ctrl0 /\ ctrl0 # FZeros(nu(model))
====
